---- MODULE Spec2Model ----
(***************************************************************************)
(* A model of chadselect-py: the content store, the prefix router, the     *)
(* compatibility matrix, the ">>" function pipeline, the four engine       *)
(* adapters and the orchestrator with its combinators.                     *)
(*                                                                         *)
(* Python strings are TLA+ strings (sequences of characters): Len, SubSeq  *)
(* and \o act on them.  A Python call either returns a value or raises; an *)
(* outcome is the record [err, val] with err = "none" for a return.        *)
(***************************************************************************)
EXTENDS Integers, Sequences, FiniteSets, TLC

VARIABLES content_list, added, cleared, last, memo, threads

vars == <<content_list, added, cleared, last, memo, threads>>

(***************************************************************************)
(* Bounds of the model.                                                    *)
(***************************************************************************)
MaxItems == 2

MaxIndex == 2

MaxThreads == 2

(***************************************************************************)
(* Python str primitives.                                                  *)
(***************************************************************************)
Whitespace == {" ", "\t", "\n"}

Quotes == {"'", "\""}

Digits == "0123456789"

LowerLetters == "abcdefghijklmnopqrstuvwxyz"

UpperLetters == "ABCDEFGHIJKLMNOPQRSTUVWXYZ"

\* s[i] for a 0-based index; "" stands for no character (index outside s)
CharAt(s, i) == IF 0 <= i /\ i < Len(s) THEN SubSeq(s, i + 1, i + 1) ELSE ""

\* The decimal digits, as a set
DigitChars == {CharAt(Digits, i) : i \in 0 .. Len(Digits) - 1}

\* The characters the class \w matches
WordChars ==
    DigitChars \cup {"_"}
    \cup {CharAt(LowerLetters, i) : i \in 0 .. Len(LowerLetters) - 1}
    \cup {CharAt(UpperLetters, i) : i \in 0 .. Len(UpperLetters) - 1}

\* The bound of a slice: negative counts from the end, then clamped to 0..len(s)
SliceBound(s, i) ==
    IF i < 0 THEN (IF Len(s) + i > 0 THEN Len(s) + i ELSE 0)
    ELSE (IF i < Len(s) THEN i ELSE Len(s))

\* s[start:stop]
Slice(s, start, stop) ==
    IF SliceBound(s, start) >= SliceBound(s, stop) THEN ""
    ELSE SubSeq(s, SliceBound(s, start) + 1, SliceBound(s, stop))

\* s[start:]
SliceFrom(s, start) == Slice(s, start, Len(s))

\* s.startswith(p)
StartsWith(s, p) == Len(p) <= Len(s) /\ SubSeq(s, 1, Len(p)) = p

\* s.endswith(p)
EndsWith(s, p) == Len(p) <= Len(s) /\ SubSeq(s, Len(s) - Len(p) + 1, Len(s)) = p

\* s.find(sub, from): the lowest 0-based index >= from where sub occurs, or -1
RECURSIVE FindFrom(_, _, _)
FindFrom(s, sub, from) ==
    IF from + Len(sub) > Len(s) THEN -1
    ELSE IF SubSeq(s, from + 1, from + Len(sub)) = sub THEN from
    ELSE FindFrom(s, sub, from + 1)

\* s.find(sub)
Find(s, sub) == FindFrom(s, sub, 0)

\* s.rfind(sub): the highest 0-based index where sub occurs, or -1
RECURSIVE RFindFrom(_, _, _)
RFindFrom(s, sub, from) ==
    IF from < 0 THEN -1
    ELSE IF SubSeq(s, from + 1, from + Len(sub)) = sub THEN from
    ELSE RFindFrom(s, sub, from - 1)

RFind(s, sub) == RFindFrom(s, sub, Len(s) - Len(sub))

\* sub in s
Contains(s, sub) == Find(s, sub) # -1

\* s.lstrip(chars) / s.rstrip(chars) / s.strip(chars) for a set of characters
RECURSIVE LStripChars(_, _)
LStripChars(s, chars) ==
    IF s # "" /\ CharAt(s, 0) \in chars THEN LStripChars(SliceFrom(s, 1), chars) ELSE s

RECURSIVE RStripChars(_, _)
RStripChars(s, chars) ==
    IF s # "" /\ CharAt(s, Len(s) - 1) \in chars
    THEN RStripChars(SubSeq(s, 1, Len(s) - 1), chars)
    ELSE s

StripChars(s, chars) == RStripChars(LStripChars(s, chars), chars)

\* s.strip()
Strip(s) == StripChars(s, Whitespace)

\* s.split(sep) for a non-empty separator
RECURSIVE Split(_, _)
Split(s, sep) ==
    LET pos == Find(s, sep)
    IN  IF pos = -1 THEN <<s>>
        ELSE <<Slice(s, 0, pos)>> \o Split(SliceFrom(s, pos + Len(sep)), sep)

\* s.replace(find, repl)
RECURSIVE Replace(_, _, _)
Replace(s, find, repl) ==
    IF find = ""
    THEN IF s = "" THEN repl
         ELSE repl \o CharAt(s, 0) \o Replace(SliceFrom(s, 1), find, repl)
    ELSE LET pos == Find(s, find)
         IN  IF pos = -1 THEN s
             ELSE Slice(s, 0, pos) \o repl
                  \o Replace(SliceFrom(s, pos + Len(find)), find, repl)

\* Character-wise translation of s from the alphabet from to the alphabet to
RECURSIVE Translate(_, _, _)
Translate(s, from, to) ==
    IF s = "" THEN ""
    ELSE LET k == Find(from, CharAt(s, 0))
         IN  (IF k = -1 THEN CharAt(s, 0) ELSE CharAt(to, k))
             \o Translate(SliceFrom(s, 1), from, to)

\* s.upper() / s.lower()
UpperCase(s) == Translate(s, LowerLetters, UpperLetters)

LowerCase(s) == Translate(s, UpperLetters, LowerLetters)

\* re.sub(r"\s+", " ", s): every maximal run of whitespace becomes one space
RECURSIVE CollapseWhitespace(_)
CollapseWhitespace(s) ==
    IF s = "" THEN ""
    ELSE IF CharAt(s, 0) \in Whitespace
         THEN " " \o CollapseWhitespace(LStripChars(s, Whitespace))
         ELSE CharAt(s, 0) \o CollapseWhitespace(SliceFrom(s, 1))

\* The value of a string of decimal digits
RECURSIVE DigitsValue(_)
DigitsValue(s) ==
    IF s = "" THEN 0
    ELSE 10 * DigitsValue(SubSeq(s, 1, Len(s) - 1)) + Find(Digits, CharAt(s, Len(s) - 1))

AllDigits(s) == s # "" /\ \A i \in 0 .. Len(s) - 1 : CharAt(s, i) \in DigitChars

\* int(s): [ok |-> FALSE] stands for ValueError
ParseInt(s) ==
    LET t    == Strip(s)
        sign == IF CharAt(t, 0) \in {"-", "+"} THEN CharAt(t, 0) ELSE ""
        body == IF sign = "" THEN t ELSE SliceFrom(t, 1)
    IN  IF AllDigits(body)
        THEN [ok |-> TRUE, val |-> IF sign = "-" THEN 0 - DigitsValue(body) ELSE DigitsValue(body)]
        ELSE [ok |-> FALSE, val |-> 0]

\* Sequence helpers
RECURSIVE MapSeq(_, _)
MapSeq(F(_), xs) == IF xs = <<>> THEN <<>> ELSE <<F(Head(xs))>> \o MapSeq(F, Tail(xs))

\* A list kept as it is
KeepAll(xs) == xs

\* [r for r in results if r]
RECURSIVE DropEmpty(_)
DropEmpty(xs) ==
    IF xs = <<>> THEN <<>>
    ELSE (IF Head(xs) = "" THEN <<>> ELSE <<Head(xs)>>) \o DropEmpty(Tail(xs))

(***************************************************************************)
(* Outcomes of a Python call.                                              *)
(***************************************************************************)
Ok(v) == [err |-> "none", val |-> v]

Raise(e) == [err |-> e, val |-> <<>>]

(***************************************************************************)
(* _query.py                                                               *)
(***************************************************************************)
FUNCTION_PIPE == ">>"

QueryType == {"REGEX", "XPATH", "JSON", "CSS"}

ContentType == {"TEXT", "HTML", "JSON"}

_COMPAT ==
    [qt \in QueryType |->
        CASE qt = "REGEX" -> {"TEXT", "HTML", "JSON"}
          [] qt = "XPATH" -> {"TEXT", "HTML"}
          [] qt = "JSON"  -> {"JSON"}
          [] qt = "CSS"   -> {"HTML"}]

\* parse_query with one prefix length for every prefix
parse_query_fixed_offset(query) ==
    IF StartsWith(query, "regex:") THEN <<"REGEX", SliceFrom(query, 6)>>
    ELSE IF StartsWith(query, "json:") THEN <<"JSON", SliceFrom(query, 6)>>
    ELSE IF StartsWith(query, "xpath:") THEN <<"XPATH", SliceFrom(query, 6)>>
    ELSE IF StartsWith(query, "css:") THEN <<"CSS", SliceFrom(query, 6)>>
    ELSE <<"REGEX", query>>

parse_query(query) ==
    IF StartsWith(query, "regex:") THEN <<"REGEX", SliceFrom(query, 6)>>
    ELSE IF StartsWith(query, "json:") THEN <<"JSON", SliceFrom(query, 5)>>
    ELSE IF StartsWith(query, "xpath:") THEN <<"XPATH", SliceFrom(query, 6)>>
    ELSE IF StartsWith(query, "css:") THEN <<"CSS", SliceFrom(query, 4)>>
    ELSE <<"REGEX", query>>

\* is_query_compatible with CSS allowed on plain text
is_query_compatible_css_text(query_type, content_type) ==
    content_type \in _COMPAT[query_type] \/ (query_type = "CSS" /\ content_type = "TEXT")

is_query_compatible(query_type, content_type) == content_type \in _COMPAT[query_type]

(***************************************************************************)
(* _functions.py                                                           *)
(***************************************************************************)
\* A split that also takes the first | for a separator
split_functions_at_bar(input_str) ==
    LET pos == IF Find(input_str, "|") # -1 THEN Find(input_str, "|")
               ELSE Find(input_str, FUNCTION_PIPE)
    IN  IF pos = -1 THEN <<Strip(input_str), "">>
        ELSE <<Strip(Slice(input_str, 0, pos)), SliceFrom(input_str, pos + Len(FUNCTION_PIPE))>>

split_functions(input_str) ==
    LET pos == Find(input_str, FUNCTION_PIPE)
    IN  IF pos = -1 THEN <<Strip(input_str), "">>
        ELSE <<Strip(Slice(input_str, 0, pos)), SliceFrom(input_str, pos + Len(FUNCTION_PIPE))>>

\* The lowest index >= from of a character of chars, or -1
RECURSIVE FindCharIn(_, _, _)
FindCharIn(s, chars, from) ==
    IF from >= Len(s) THEN -1
    ELSE IF CharAt(s, from) \in chars THEN from
    ELSE FindCharIn(s, chars, from + 1)

\* The lowest index >= from of a character that is not whitespace, or len(s)
RECURSIVE SkipWhitespace(_, _)
SkipWhitespace(s, from) ==
    IF from < Len(s) /\ CharAt(s, from) \in Whitespace THEN SkipWhitespace(s, from + 1) ELSE from

\* re.match(r"""['"](.*?)['"],\s*['"](.*?)['"]""", t), the first group closing
\* at the lowest quote at or after from that lets the rest match
RECURSIVE TwoStringArgsFrom(_, _)
TwoStringArgsFrom(t, from) ==
    LET i == FindCharIn(t, Quotes, from)
        j == SkipWhitespace(t, i + 2)
        k == FindCharIn(t, Quotes, j + 1)
    IN  IF i = -1 \/ Contains(Slice(t, 1, i), "\n") THEN [ok |-> FALSE, find |-> "", repl |-> ""]
        ELSE IF /\ CharAt(t, i + 1) = ","
                /\ CharAt(t, j) \in Quotes
                /\ k # -1
                /\ ~Contains(Slice(t, j + 1, k), "\n")
             THEN [ok |-> TRUE, find |-> Slice(t, 1, i), repl |-> Slice(t, j + 1, k)]
             ELSE TwoStringArgsFrom(t, i + 1)

_parse_two_string_args(args_str) ==
    IF CharAt(Strip(args_str), 0) \in Quotes THEN TwoStringArgsFrom(Strip(args_str), 1)
    ELSE [ok |-> FALSE, find |-> "", repl |-> ""]

\* The name and the argument string of one call token
FuncName(func_str) ==
    LET paren == Find(func_str, "(")
    IN  IF paren = -1 THEN Strip(func_str) ELSE Strip(Slice(func_str, 0, paren))

FuncArgs(func_str) ==
    LET paren == Find(func_str, "(")
        end   == RFind(func_str, ")")
    IN  IF paren = -1 THEN ""
        ELSE Slice(func_str, paren + 1, IF end # -1 THEN end ELSE Len(func_str))

Substring(results, args) ==
    IF Len(args) >= 2 /\ ParseInt(args[1]).ok /\ ParseInt(args[2]).ok
    THEN MapSeq(LAMBDA s : Slice(s, ParseInt(args[1]).val,
                                 ParseInt(args[1]).val + ParseInt(args[2]).val),
                results)
    ELSE results

\* substring-after keeping a string without the delimiter as it is
SubstringAfterKeepsMissing(results, delim) ==
    DropEmpty(MapSeq(LAMBDA s : IF Find(s, delim) # -1
                                THEN SliceFrom(s, Find(s, delim) + Len(delim)) ELSE s,
                     results))

SubstringAfter(results, delim) ==
    DropEmpty(MapSeq(LAMBDA s : IF Find(s, delim) # -1
                                THEN SliceFrom(s, Find(s, delim) + Len(delim)) ELSE "",
                     results))

\* substring-before giving "" for a string without the delimiter
SubstringBeforeDropsMissing(results, delim) ==
    MapSeq(LAMBDA s : IF Find(s, delim) # -1 THEN Slice(s, 0, Find(s, delim)) ELSE "", results)

SubstringBefore(results, delim) ==
    MapSeq(LAMBDA s : IF Find(s, delim) # -1 THEN Slice(s, 0, Find(s, delim)) ELSE s, results)

\* replace touching the first occurrence only
ReplaceFirstOnly(results, args) ==
    IF args.ok
    THEN MapSeq(LAMBDA s : IF Find(s, args.find) = -1 THEN s
                           ELSE Slice(s, 0, Find(s, args.find)) \o args.repl
                                \o SliceFrom(s, Find(s, args.find) + Len(args.find)),
                results)
    ELSE results

ReplaceAll(results, args) ==
    IF args.ok THEN MapSeq(LAMBDA s : Replace(s, args.find, args.repl), results) ELSE results

\* The branches of _apply_one on the function name
ApplyNamed(results, name, args_str) ==
    CASE name = "normalize-space" ->
           MapSeq(LAMBDA s : Strip(CollapseWhitespace(s)), results)
      [] name = "trim" -> MapSeq(Strip, results)
      [] name = "uppercase" -> MapSeq(UpperCase, results)
      [] name = "lowercase" -> MapSeq(LowerCase, results)
      [] name = "substring" -> Substring(results, MapSeq(Strip, Split(args_str, ",")))
      [] name = "substring-after" ->
           SubstringAfter(results, StripChars(Strip(args_str), Quotes))
      [] name = "substring-before" ->
           SubstringBefore(results, StripChars(Strip(args_str), Quotes))
      [] name = "replace" -> ReplaceAll(results, _parse_two_string_args(args_str))
      [] name = "get-attr" -> results
      [] OTHER -> results

\* _apply_one emptying the list on a name it does not know
_apply_one_known_only(results, func_str) ==
    IF FuncName(func_str) \in {"normalize-space", "trim", "uppercase", "lowercase", "substring",
                               "substring-after", "substring-before", "replace", "get-attr"}
    THEN ApplyNamed(results, FuncName(func_str), FuncArgs(func_str))
    ELSE <<>>

\* A pipeline in which get-attr empties the list
_apply_one_get_attr_clears(results, func_str) ==
    IF FuncName(func_str) = "get-attr" THEN <<>>
    ELSE ApplyNamed(results, FuncName(func_str), FuncArgs(func_str))

_apply_one(results, func_str) == ApplyNamed(results, FuncName(func_str), FuncArgs(func_str))

\* The loop without the filter after each step
RECURSIVE ApplyChainUnfiltered(_, _)
ApplyChainUnfiltered(results, tokens) ==
    IF tokens = <<>> THEN results
    ELSE IF Strip(Head(tokens)) = "" THEN ApplyChainUnfiltered(results, Tail(tokens))
    ELSE ApplyChainUnfiltered(_apply_one(results, Strip(Head(tokens))), Tail(tokens))

\* The loop of parse_and_apply over the call tokens
RECURSIVE ApplyChain(_, _)
ApplyChain(results, tokens) ==
    IF tokens = <<>> THEN results
    ELSE IF Strip(Head(tokens)) = "" THEN ApplyChain(results, Tail(tokens))
    ELSE ApplyChain(DropEmpty(_apply_one(results, Strip(Head(tokens)))), Tail(tokens))

parse_and_apply(results, func_chain_str) ==
    IF Strip(func_chain_str) = "" THEN results
    ELSE ApplyChain(results, Split(func_chain_str, FUNCTION_PIPE))

(***************************************************************************)
(* The payloads loaded into the store and the documents the external       *)
(* parsers make of them.                                                   *)
(***************************************************************************)
P_TEXT == "a1 b2"

P_HTML == "<p id=\"k\">a1</p><p> </p><i>b2</i>"

\* Anchors with an empty id, an id and blank text, no id; an element with an id
P_ATTRS == "<a id=\"\">x1</a><a id=\"k\"> </a><a>y2</a><b id=\"m\">z3</b>"

\* Two sibling blocks, each a label and a value
P_BLOCKS == "<div><b>E:</b> <i>x1</i></div><div><b>I:</b><i> y2</i></div>"

P_JSON == "{\"a\":\"a1\",\"n\":null,\"l\":[\"b2\",\"\",null,true,[1]]}"

\* The longest decimal literal int() converts (sys.int_info.default_max_str_digits)
MAX_STR_DIGITS == 4300

\* s repeated n times
RECURSIVE Repeat(_, _)
Repeat(s, n) ==
    IF n = 0 THEN ""
    ELSE IF n % 2 = 1 THEN s \o Repeat(s, n - 1)
    ELSE Repeat(s \o s, n \div 2)

\* A JSON document that is one integer literal, one digit longer than int() takes
P_BIGNUM == Repeat("1", MAX_STR_DIGITS + 1)

(***************************************************************************)
(* The inputs of the calls.                                                *)
(***************************************************************************)
TextInputs == {P_TEXT, P_HTML}

HtmlInputs == {P_HTML, P_JSON}

JsonInputs == {P_JSON, P_TEXT}

Indexes == (0 - MaxIndex - 1) .. MaxIndex

Queries ==
    {"regex:\\w\\d", "(\\w)(\\d)?", "regex:(", "regex:a{4294967296}",
     "regex:a1 >> substring-after('a1')", "b2 >> uppercase() >> lowercase",
     "css:p", "css:* >> get-attr('id')", "css:p[",
     "xpath://p", "xpath://p[", "xpath:count(//p)",
     "json:l", "json:a >> nosuch() >> substring(1, 1)", "json:l["}

SelectQueries == {"regex:\\w\\d", "regex:a{4294967296}", "css:p", "json:l", "xpath:count(//p)"}

QueryLists ==
    {<<>>,
     <<<<0, "css:q">>, <<-1, "regex:\\w\\d">>, <<0, "json:l">>>>,
     <<<<-1, "regex:\\w\\d">>, <<1, "regex:\\w\\d">>>>,
     <<<<1, "json:l">>, <<-1, "css:*">>, <<-1, "json:l">>>>,
     <<<<-1, "xpath://p">>, <<0, "xpath:count(//p)">>>>,
     <<<<0, "regex:zz">>, <<-1, "regex:a{4294967296}">>>>}

ParseInputs ==
    {pre \o rest : pre \in {"regex:", "json:", "xpath:", "css:", "", "Regex:", "CSS:", " css:",
                            "css", "xpath", "json :", "re:", "xcss:"},
                   rest \in {"", "p", "json:a", "a >> trim()"}}

(***************************************************************************)
(* The re module: compile, findall, finditer.  A compiled pattern is a     *)
(* sequence of one-character atoms (a class, the capture group the atom    *)
(* belongs to, whether it is optional); optional atoms follow all others.  *)
(***************************************************************************)
Atom(cls, ch, grp, opt) == [cls |-> cls, ch |-> ch, grp |-> grp, opt |-> opt]

RECURSIVE LiteralAtoms(_)
LiteralAtoms(s) ==
    IF s = "" THEN <<>>
    ELSE <<Atom("lit", CharAt(s, 0), 0, FALSE)>> \o LiteralAtoms(SliceFrom(s, 1))

\* re.compile(pattern); a pattern outside the table compiles as a literal unless
\* it holds a character re gives a meaning of its own
ReCompile(pattern) ==
    CASE pattern = "\\w\\d" ->
           [err |-> "none", groups |-> 0,
            prog |-> <<Atom("w", "", 0, FALSE), Atom("d", "", 0, FALSE)>>]
      [] pattern = "(\\w)(\\d)?" ->
           [err |-> "none", groups |-> 2,
            prog |-> <<Atom("w", "", 1, FALSE), Atom("d", "", 2, TRUE)>>]
      [] pattern = "." ->
           [err |-> "none", groups |-> 0, prog |-> <<Atom("any", "", 0, FALSE)>>]
      [] pattern = "a{4294967296}" ->
           [err |-> "OverflowError", groups |-> 0, prog |-> <<>>]
      [] \E i \in 0 .. Len(pattern) - 1 :
            CharAt(pattern, i) \in {"\\", "(", ")", "[", "]", "{", "}", ".", "*", "+", "?",
                                    "|", "^", "$"} ->
           [err |-> "re.error", groups |-> 0, prog |-> <<>>]
      [] OTHER ->
           [err |-> "none", groups |-> 0, prog |-> LiteralAtoms(pattern)]

ClassMatch(atom, c) ==
    CASE atom.cls = "lit" -> c = atom.ch
      [] atom.cls = "d"   -> c \in DigitChars
      [] atom.cls = "w"   -> c \in WordChars
      [] atom.cls = "any" -> c # "\n"

Capture(groups, grp, c) ==
    IF grp = 0 THEN groups
    ELSE [groups EXCEPT ![grp] = [some |-> TRUE, s |-> @.s \o c]]

\* One match attempt at pos, atoms k.. still to match
RECURSIVE MatchAt(_, _, _, _, _)
MatchAt(prog, content, pos, k, groups) ==
    IF k > Len(prog) THEN [ok |-> TRUE, end |-> pos, groups |-> groups]
    ELSE IF CharAt(content, pos) # "" /\ ClassMatch(prog[k], CharAt(content, pos))
         THEN MatchAt(prog, content, pos + 1, k + 1,
                      Capture(groups, prog[k].grp, CharAt(content, pos)))
         ELSE IF prog[k].opt THEN MatchAt(prog, content, pos, k + 1, groups)
         ELSE [ok |-> FALSE, end |-> pos, groups |-> groups]

\* compiled.finditer(content): the non-overlapping matches, left to right
RECURSIVE ReFinditer(_, _, _)
ReFinditerFrom(compiled, content, pos, m) ==
    IF ~m.ok THEN ReFinditer(compiled, content, pos + 1)
    ELSE <<[full |-> Slice(content, pos, m.end), groups |-> m.groups]>>
         \o ReFinditer(compiled, content, IF m.end > pos THEN m.end ELSE pos + 1)

ReFinditer(compiled, content, pos) ==
    IF pos > Len(content) THEN <<>>
    ELSE ReFinditerFrom(compiled, content, pos,
                        MatchAt(compiled.prog, content, pos, 1,
                                [g \in 1 .. compiled.groups |-> [some |-> FALSE, s |-> ""]]))

\* compiled.findall(content) of a pattern without groups: the full matches
ReFindall(compiled, content) ==
    MapSeq(LAMBDA m : m.full, ReFinditer(compiled, content, 0))

(***************************************************************************)
(* engine/regex.py                                                         *)
(***************************************************************************)
\* for g in match.groups(): if g is not None: results.append(g)
RECURSIVE GroupsOf(_)
GroupsOf(groups) ==
    IF groups = <<>> THEN <<>>
    ELSE (IF Head(groups).some THEN <<Head(groups).s>> ELSE <<>>) \o GroupsOf(Tail(groups))

RECURSIVE AllGroups(_)
AllGroups(matches) ==
    IF matches = <<>> THEN <<>>
    ELSE GroupsOf(Head(matches).groups) \o AllGroups(Tail(matches))

\* if func_chain.strip(): results = parse_and_apply(results, func_chain)
WithFunctions(results, func_chain) ==
    IF Strip(func_chain) # "" THEN parse_and_apply(results, func_chain) ELSE results

\* the body of process once the pattern is compiled: findall without groups,
\* the groups of every finditer match with them
RegexCompiled(compiled, func_chain, content) ==
    IF compiled.err = "re.error" THEN Ok(<<>>)
    ELSE IF compiled.err # "none" THEN Raise(compiled.err)
    ELSE Ok(WithFunctions(DropEmpty(MapSeq(Strip,
                                           IF compiled.groups = 0
                                           THEN ReFindall(compiled, content)
                                           ELSE AllGroups(ReFinditer(compiled, content, 0)))),
                          func_chain))

regex_process(pattern_with_functions, content) ==
    RegexCompiled(ReCompile(split_functions(pattern_with_functions)[1]),
                  split_functions(pattern_with_functions)[2], content)

(***************************************************************************)
(* The document the HTML parsers (lxml, selectolax) build from a payload:  *)
(* a sequence of element nodes, the root first.  text is the node's text   *)
(* content, stext its text with every text node stripped (selectolax's     *)
(* text(strip=True)), attrs its attributes, parent the index of its parent.*)
(***************************************************************************)
Node(tag, attrs, text, stext, parent) ==
    [tag |-> tag, attrs |-> attrs, text |-> text, stext |-> stext, parent |-> parent]

\* The element nodes of a payload below the root the parser supplies
BodyNodes(content) ==
    IF content = P_HTML
    THEN <<Node("p", <<<<"id", "k">>>>, "a1", "a1", 1),
           Node("p", <<>>, " ", "", 1),
           Node("i", <<>>, "b2", "b2", 1)>>
    ELSE IF content = P_ATTRS
    THEN <<Node("a", <<<<"id", "">>>>, "x1", "x1", 1),
           Node("a", <<<<"id", "k">>>>, " ", "", 1),
           Node("a", <<>>, "y2", "y2", 1),
           Node("b", <<<<"id", "m">>>>, "z3", "z3", 1)>>
    ELSE IF content = P_BLOCKS
    THEN <<Node("div", <<>>, "E: x1", "E:x1", 1),
           Node("b", <<>>, "E:", "E:", 2),
           Node("i", <<>>, "x1", "x1", 2),
           Node("div", <<>>, "I: y2", "I:y2", 1),
           Node("b", <<>>, "I:", "I:", 5),
           Node("i", <<>>, " y2", "y2", 5)>>
    ELSE <<>>

\* The text of the whole payload as the parser sees it, and that text with
\* every text node stripped
BodyText(content, strip) ==
    IF content = P_HTML THEN (IF strip THEN "a1b2" ELSE "a1 b2")
    ELSE IF content = P_ATTRS THEN (IF strip THEN "x1y2z3" ELSE "x1 y2z3")
    ELSE IF content = P_BLOCKS THEN (IF strip THEN "E:x1I:y2" ELSE "E: x1I: y2")
    ELSE (IF strip THEN Strip(content) ELSE content)

\* node.attributes.get(name, ""), a valueless attribute counting as ""
RECURSIVE AttrGet(_, _)
AttrGet(attrs, name) ==
    IF attrs = <<>> THEN ""
    ELSE IF Head(attrs)[1] = name THEN Head(attrs)[2]
    ELSE AttrGet(Tail(attrs), name)

HasAttr(attrs, name) == \E i \in 1 .. Len(attrs) : attrs[i][1] = name

\* The indices i of doc, in document order, with P(i)
RECURSIVE SelectIndices(_, _, _)
SelectIndices(P(_), n, i) ==
    IF i > n THEN <<>>
    ELSE (IF P(i) THEN <<i>> ELSE <<>>) \o SelectIndices(P, n, i + 1)

\* Whether node i lies below node scope
RECURSIVE IsDescendant(_, _, _)
IsDescendant(doc, i, scope) ==
    IF i = 0 THEN FALSE
    ELSE doc[i].parent = scope \/ IsDescendant(doc, doc[i].parent, scope)

(***************************************************************************)
(* lxml: html.fromstring and tree.xpath.  A payload without markup becomes *)
(* one <p> element; several top-level elements are wrapped in a <div>.     *)
(***************************************************************************)
HtmlFromString(content) ==
    IF Strip(content) = "" THEN [err |-> "ParserError", doc |-> <<>>]
    ELSE IF BodyNodes(content) = <<>>
         THEN [err |-> "none", doc |-> <<Node("p", <<>>, content, Strip(content), 0)>>]
         ELSE [err |-> "none",
               doc |-> <<Node("div", <<>>, BodyText(content, FALSE), BodyText(content, TRUE), 0)>>
                       \o BodyNodes(content)]

\* An item of an XPath node list: an element (it has text_content) or a string
XElement(node) == [is_element |-> TRUE, text_content |-> node.text, str |-> "<Element>"]

XString(str) == [is_element |-> FALSE, text_content |-> "", str |-> str]

XValue(kind, str, items) == [err |-> "none", kind |-> kind, s |-> str, items |-> items]

NodesByTag(doc, tag) == SelectIndices(LAMBDA i : doc[i].tag = tag, Len(doc), 1)

\* The elements of xs with P, in order
RECURSIVE FilterSeq(_, _)
FilterSeq(P(_), xs) ==
    IF xs = <<>> THEN <<>>
    ELSE (IF P(Head(xs)) THEN <<Head(xs)>> ELSE <<>>) \o FilterSeq(P, Tail(xs))

\* tree.xpath(expr) given the <p> and the <i> elements of the document: a
\* string, a list of nodes, a number or a boolean
XPathOn(xpath_expr, ps, is) ==
    CASE xpath_expr = "//p" -> XValue("list", "", MapSeq(XElement, ps))
      [] xpath_expr = "//i" -> XValue("list", "", MapSeq(XElement, is))
      [] xpath_expr = "//p/text()" ->
           XValue("list", "",
                  MapSeq(LAMBDA n : XString(n.text), FilterSeq(LAMBDA n : n.text # "", ps)))
      [] xpath_expr = "//p/@id" ->
           XValue("list", "",
                  MapSeq(LAMBDA n : XString(AttrGet(n.attrs, "id")),
                         FilterSeq(LAMBDA n : HasAttr(n.attrs, "id"), ps)))
      [] xpath_expr = "string(//p)" ->
           XValue("str", IF ps = <<>> THEN "" ELSE Head(ps).text, <<>>)
      [] xpath_expr = "count(//p)" -> XValue("float", "", <<>>)
      [] xpath_expr = "boolean(//p)" -> XValue("bool", "", <<>>)
      [] OTHER -> [err |-> "XPathEvalError", kind |-> "", s |-> "", items |-> <<>>]

XPathEval(xpath_expr, doc) ==
    XPathOn(xpath_expr, MapSeq(LAMBDA i : doc[i], NodesByTag(doc, "p")),
            MapSeq(LAMBDA i : doc[i], NodesByTag(doc, "i")))

(***************************************************************************)
(* engine/xpath.py                                                         *)
(***************************************************************************)
\* str() of every item, an element included
ItemTextStr(item) == Strip(item.str)

\* text_content() of an element, str() of a text node or attribute
ItemText(item) == IF item.is_element THEN Strip(item.text_content) ELSE Strip(item.str)

\* the body of process after tree.xpath: a plain string is wrapped in a list,
\* iterating a number or a boolean raises
XPathRaw(raw, func_chain) ==
    IF raw.err # "none" THEN Ok(<<>>)
    ELSE IF raw.kind \in {"float", "bool"} THEN Raise("TypeError")
    ELSE Ok(WithFunctions(DropEmpty(MapSeq(ItemText, IF raw.kind = "str"
                                                     THEN <<XString(raw.s)>> ELSE raw.items)),
                          func_chain))

xpath_process(xpath_with_functions, content) ==
    IF HtmlFromString(content).err # "none" THEN Ok(<<>>)
    ELSE XPathRaw(XPathEval(split_functions(xpath_with_functions)[1],
                            HtmlFromString(content).doc),
                  split_functions(xpath_with_functions)[2])

(***************************************************************************)
(* json and jmespath.  A JSON value is a record: t its type, s its text    *)
(* (str() of a scalar, the compact json.dumps of a list or an object),     *)
(* items the elements of a list.                                           *)
(***************************************************************************)
JValue(t, s, items) == [t |-> t, s |-> s, items |-> items]

\* A JSON integer literal: decimal digits without a leading zero
IsJsonInt(s) == AllDigits(s) /\ (Len(s) = 1 \/ CharAt(s, 0) # "0")

\* json.loads(raw_json): the object of P_JSON, an integer literal (int() refuses
\* one of more than MAX_STR_DIGITS digits with a ValueError that is not a
\* JSONDecodeError), and anything else is not JSON
JsonLoads(raw_json) ==
    IF raw_json = P_JSON THEN [err |-> "none", data |-> JValue("obj", P_JSON, <<>>)]
    ELSE IF IsJsonInt(raw_json)
         THEN IF Len(raw_json) > MAX_STR_DIGITS
              THEN [err |-> "ValueError", data |-> JValue("null", "None", <<>>)]
              ELSE [err |-> "none", data |-> JValue("num", raw_json, <<>>)]
         ELSE [err |-> "JSONDecodeError", data |-> JValue("null", "None", <<>>)]

\* jmespath.search(expr, data) on the object of P_JSON
JmesObject(expr, data) ==
    CASE expr = "a" -> [err |-> "none", value |-> JValue("str", "a1", <<>>)]
      [] expr = "n" -> [err |-> "none", value |-> JValue("null", "None", <<>>)]
      [] expr = "zz" -> [err |-> "none", value |-> JValue("null", "None", <<>>)]
      [] expr = "l" ->
           [err |-> "none",
            value |-> JValue("list", "[\"b2\",\"\",null,true,[1]]",
                            <<JValue("str", "b2", <<>>), JValue("str", "", <<>>),
                              JValue("null", "None", <<>>), JValue("bool", "True", <<>>),
                              JValue("list", "[1]", <<JValue("num", "1", <<>>)>>)>>)]
      [] expr = "l[4][0]" -> [err |-> "none", value |-> JValue("num", "1", <<>>)]
      [] expr = "l[3]" -> [err |-> "none", value |-> JValue("bool", "True", <<>>)]
      [] expr = "@" -> [err |-> "none", value |-> data]
      [] OTHER -> [err |-> "ParseError", value |-> JValue("null", "None", <<>>)]

\* jmespath.search(expr, data): a field or an index of a value that is not an
\* object is null
JmesSearch(expr, data) ==
    IF data.t = "obj" THEN JmesObject(expr, data)
    ELSE IF expr \in {"a", "n", "zz", "l", "l[4][0]", "l[3]"}
         THEN [err |-> "none", value |-> JValue("null", "None", <<>>)]
    ELSE IF expr = "@" THEN [err |-> "none", value |-> data]
    ELSE [err |-> "ParseError", value |-> JValue("null", "None", <<>>)]

(***************************************************************************)
(* engine/json.py                                                          *)
(***************************************************************************)
_stringify(value) ==
    IF value.t = "null" THEN ""
    ELSE IF value.t = "bool" THEN LowerCase(value.s)
    ELSE IF value.t \in {"obj", "list"} THEN value.s
    ELSE value.s

_to_string_list(value) ==
    IF value.t = "null" THEN <<>>
    ELSE IF value.t = "list" THEN DropEmpty(MapSeq(_stringify, value.items))
    ELSE DropEmpty(<<_stringify(value)>>)

\* except json.JSONDecodeError: return []; any other error leaves process; a
\* failing jmespath.search returns []
JsonLoaded(loaded, expr, func_chain) ==
    IF loaded.err = "JSONDecodeError" THEN Ok(<<>>)
    ELSE IF loaded.err # "none" THEN Raise(loaded.err)
    ELSE IF JmesSearch(expr, loaded.data).err # "none" THEN Ok(<<>>)
    ELSE Ok(WithFunctions(_to_string_list(JmesSearch(expr, loaded.data).value), func_chain))

json_process(jmespath_with_functions, raw_json) ==
    JsonLoaded(JsonLoads(raw_json), split_functions(jmespath_with_functions)[1],
               split_functions(jmespath_with_functions)[2])

(***************************************************************************)
(* selectolax: HTMLParser, tree.body, node.css.  The document is the body  *)
(* element followed by the payload's elements.                             *)
(***************************************************************************)
HTMLParser(html) ==
    <<Node("body", <<>>, BodyText(html, FALSE), BodyText(html, TRUE), 0)>> \o BodyNodes(html)

\* node.css(selector) below node scope: a tag name, #id, or * ; an unclosed
\* bracket or a combinator without operands is a selector the engine rejects
CssMatch(doc, scope, sel, i) ==
    /\ IsDescendant(doc, i, scope)
    /\ \/ sel = "*"
       \/ sel = doc[i].tag
       \/ /\ StartsWith(sel, "#")
          /\ HasAttr(doc[i].attrs, "id")
          /\ AttrGet(doc[i].attrs, "id") = SliceFrom(sel, 1)

CssSelect(doc, scope, selector) ==
    LET sel == Strip(selector)
    IN  IF sel = "" \/ Contains(sel, "[") \/ StartsWith(sel, ">") \/ EndsWith(sel, ">")
        THEN [err |-> "SelectolaxError", nodes |-> <<>>]
        ELSE [err |-> "none",
              nodes |-> SelectIndices(LAMBDA i : CssMatch(doc, scope, sel, i), Len(doc), 1)]

(***************************************************************************)
(* engine/css.py                                                           *)
(***************************************************************************)
PseudoNames == <<"has-text", "contains-text", "text-equals", "text-starts", "text-ends">>

NoPseudo(selector) ==
    [found |-> FALSE, base |-> selector, pseudo |-> "", arg |-> "", trailing |-> ""]

\* _PSEUDO_RE.search(selector): the leftmost match, trying every name at
\* position i before moving on; q1 is the position of the opening quote, q2
\* that of the closing one
RECURSIVE PseudoSearch(_, _, _)
PseudoSearch(selector, i, k) ==
    IF i >= Len(selector) THEN NoPseudo(selector)
    ELSE IF k > Len(PseudoNames) THEN PseudoSearch(selector, i + 1, 1)
    ELSE LET q1 == i + Len(PseudoNames[k]) + 2
             q2 == FindCharIn(selector, Quotes, q1 + 1)
         IN  IF /\ StartsWith(SliceFrom(selector, i), ":" \o PseudoNames[k] \o "(")
                /\ CharAt(selector, q1) \in Quotes
                /\ q2 # -1
                /\ CharAt(selector, q2 + 1) = ")"
             THEN [found |-> TRUE, base |-> Slice(selector, 0, i), pseudo |-> PseudoNames[k],
                   arg |-> Slice(selector, q1 + 1, q2),
                   trailing |-> Strip(SliceFrom(selector, q2 + 2))]
             ELSE PseudoSearch(selector, i, k + 1)

_extract_pseudo(selector) == PseudoSearch(selector, 0, 1)

_node_text(node) == Strip(node.stext)

\* Every predicate read as containment
_matches_pseudo_contains(node, pseudo, arg) == Contains(_node_text(node), arg)

_matches_pseudo(node, pseudo, arg) ==
    CASE pseudo = "has-text"      -> Contains(_node_text(node), arg)
      [] pseudo = "contains-text" -> Contains(_node_text(node), arg)
      [] pseudo = "text-equals"   -> _node_text(node) = arg
      [] pseudo = "text-starts"   -> StartsWith(_node_text(node), arg)
      [] pseudo = "text-ends"     -> EndsWith(_node_text(node), arg)
      [] OTHER -> FALSE

\* The leftmost get-attr\(['"]NAME['"]\) at or after position i, q2 the position
\* of the closing quote; NAME is word characters and hyphens, and begins with a
\* word character when strict
RECURSIVE GetAttrSearch(_, _, _)
GetAttrSearch(func_chain, i, strict) ==
    IF i >= Len(func_chain) THEN [found |-> FALSE, start |-> i, end |-> i, name |-> ""]
    ELSE LET q1   == i + Len("get-attr(")
             q2   == FindCharIn(func_chain, Quotes, q1 + 1)
             name == Slice(func_chain, q1 + 1, q2)
         IN  IF /\ StartsWith(SliceFrom(func_chain, i), "get-attr(")
                /\ CharAt(func_chain, q1) \in Quotes
                /\ q2 # -1
                /\ name # ""
                /\ \A j \in 0 .. Len(name) - 1 :
                      CharAt(name, j) \in WordChars \cup {"-"}
                /\ strict => CharAt(name, 0) \in WordChars
                /\ CharAt(func_chain, q2 + 1) = ")"
             THEN [found |-> TRUE, start |-> i, end |-> q2 + 2, name |-> name]
             ELSE GetAttrSearch(func_chain, i + 1, strict)

\* The attribute name, or "" for None
_extract_get_attr(func_chain) == GetAttrSearch(func_chain, 0, TRUE).name

\* re.sub(r"\s*get-attr\(['\"][\w-]+?['\"]\)\s*", " ", func_chain)
RECURSIVE SubGetAttr(_)
SubGetAttr(func_chain) ==
    LET m == GetAttrSearch(func_chain, 0, FALSE)
    IN  IF ~m.found THEN func_chain
        ELSE RStripChars(Slice(func_chain, 0, m.start), Whitespace) \o " "
             \o SubGetAttr(LStripChars(SliceFrom(func_chain, m.end), Whitespace))

\* re.sub(r"(>>\s*)+", ">> ", cleaned)
RECURSIVE SubPipes(_)
SubPipes(cleaned) ==
    IF cleaned = "" THEN ""
    ELSE IF StartsWith(cleaned, FUNCTION_PIPE)
         THEN LET rest == LStripChars(SliceFrom(cleaned, 2), Whitespace)
              IN  IF StartsWith(rest, FUNCTION_PIPE) THEN SubPipes(rest)
                  ELSE ">> " \o SubPipes(rest)
         ELSE CharAt(cleaned, 0) \o SubPipes(SliceFrom(cleaned, 1))

\* A removal that cuts the chain at the get-attr call
_remove_get_attr_cut(func_chain) ==
    Strip(StripChars(Strip(Slice(func_chain, 0, GetAttrSearch(func_chain, 0, FALSE).start)),
                     {">"}))

_remove_get_attr(func_chain) ==
    Strip(StripChars(Strip(SubPipes(SubGetAttr(func_chain))), {">"}))

\* The nodes one candidate adds to matched_nodes: itself, or
\* node.css(trailing), a failing selector adding nothing
PseudoNode(doc, node, parsed) ==
    IF ~_matches_pseudo(doc[node], parsed.pseudo, parsed.arg) THEN <<>>
    ELSE IF parsed.trailing = "" THEN <<node>>
    ELSE IF CssSelect(doc, node, parsed.trailing).err # "none" THEN <<>>
    ELSE CssSelect(doc, node, parsed.trailing).nodes

\* The nodes a selector with a text predicate emits, candidate by candidate
RECURSIVE PseudoNodes(_, _, _)
PseudoNodes(doc, candidates, parsed) ==
    IF candidates = <<>> THEN <<>>
    ELSE PseudoNode(doc, Head(candidates), parsed) \o PseudoNodes(doc, Tail(candidates), parsed)

\* The text or the attribute extracted from the matched nodes
CssExtract(doc, nodes, attr_name) ==
    IF attr_name # ""
    THEN DropEmpty(MapSeq(LAMBDA i : AttrGet(doc[i].attrs, attr_name), nodes))
    ELSE DropEmpty(MapSeq(LAMBDA i : doc[i].stext, nodes))

\* the body of process from the extraction on; selected is the outcome of the
\* selection, a failed selection returning []
CssSelected(tree, selected, attr_name, func_chain) ==
    IF selected.err # "none" THEN Ok(<<>>)
    ELSE Ok(WithFunctions(CssExtract(tree, selected.nodes, attr_name), func_chain))

PseudoSelected(tree, candidates, parsed) ==
    IF candidates.err # "none" THEN candidates
    ELSE [err |-> "none", nodes |-> PseudoNodes(tree, candidates.nodes, parsed)]

\* the selection of process: with a text predicate over
\* tree.css(base) if base else [tree.body], or the plain selector
CssNodes(tree, selector, parsed) ==
    IF parsed.found
    THEN PseudoSelected(tree,
                        IF parsed.base # "" THEN CssSelect(tree, 0, parsed.base)
                        ELSE [err |-> "none", nodes |-> <<1>>],
                        parsed)
    ELSE CssSelect(tree, 0, selector)

\* process once the selector is split from the functions;
\* if attr_name: func_chain = _remove_get_attr(func_chain)
CssTree(tree, selector, attr_name, func_chain) ==
    CssSelected(tree, CssNodes(tree, selector, _extract_pseudo(selector)), attr_name,
                IF attr_name # "" THEN _remove_get_attr(func_chain) ELSE func_chain)

css_process(selector_with_functions, html) ==
    CssTree(HTMLParser(html), split_functions(selector_with_functions)[1],
            _extract_get_attr(split_functions(selector_with_functions)[2]),
            split_functions(selector_with_functions)[2])

(***************************************************************************)
(* _chadselect.py                                                          *)
(***************************************************************************)
_default_valid(s) == s # "" /\ Strip(s) # ""

_ContentItem(content, content_type) == [content |-> content, content_type |-> content_type]

\* The branch of query that hands the expression and one item to its engine
Dispatch(query_type, expression, content) ==
    CASE query_type = "CSS"   -> css_process(expression, content)
      [] query_type = "XPATH" -> xpath_process(expression, content)
      [] query_type = "REGEX" -> regex_process(expression, content)
      [] query_type = "JSON"  -> json_process(expression, content)
      [] OTHER -> Ok(<<>>)

\* The loop of query over the items i.. of the store: all_results so far, and the
\* engine calls made so far; an engine call that raises ends the loop
RECURSIVE QueryLoop(_, _, _, _, _, _)
\* all_results.extend(results) and the next iteration
QueryNext(items, i, query_type, expression, all_results, called, results) ==
    IF results.err # "none" THEN [out |-> results, calls |-> called]
    ELSE QueryLoop(items, i + 1, query_type, expression, all_results \o results.val, called)

QueryLoop(items, i, query_type, expression, all_results, calls) ==
    IF i > Len(items) THEN [out |-> Ok(all_results), calls |-> calls]
    ELSE IF ~is_query_compatible(query_type, items[i].content_type)
         THEN QueryLoop(items, i + 1, query_type, expression, all_results, calls)
         ELSE QueryNext(items, i, query_type, expression, all_results,
                        Append(calls, [engine |-> query_type, item |-> i]),
                        Dispatch(query_type, expression, items[i].content))

\* all_results of query, before the selection by index, with the engine calls made
Aggregate(items, query_str) ==
    QueryLoop(items, 1, parse_query(query_str)[1], parse_query(query_str)[2], <<>>, <<>>)

_select_by_index(results, index) ==
    IF index = -1 THEN results
    ELSE IF index >= 0
         THEN IF index < Len(results) THEN <<results[index + 1]>> ELSE <<>>
         ELSE <<>>

\* return self._select_by_index(all_results, index)
QueryReturn(all, index) ==
    IF all.err # "none" THEN all ELSE Ok(_select_by_index(all.val, index))

query(items, index, query_str) == QueryReturn(Aggregate(items, query_str).out, index)

\* The validity checks handed to the *_where combinators
Validators == {"default", "not_a1", "any"}

Valid(valid, s) ==
    CASE valid = "default" -> _default_valid(s)
      [] valid = "not_a1"  -> s # "a1"
      [] valid = "any"     -> TRUE

\* if result and valid(result[0]): return result[0]; return ""
SelectValid(result, valid) ==
    IF result.err # "none" THEN Raise(result.err)
    ELSE IF result.val # <<>> /\ Valid(valid, result.val[1]) THEN Ok(result.val[1])
    ELSE Ok("")

select_where(items, index, query_str, valid) ==
    SelectValid(query(items, index, query_str), valid)

select(items, index, query_str) == select_where(items, index, query_str, "default")

RECURSIVE select_first_where(_, _, _)
\* if result and all(valid(r) for r in result): return result
FirstValid(items, queries, valid, result) ==
    IF result.err # "none" THEN result
    ELSE IF /\ result.val # <<>>
            /\ \A k \in 1 .. Len(result.val) : Valid(valid, result.val[k])
         THEN result
         ELSE select_first_where(items, Tail(queries), valid)

select_first_where(items, queries, valid) ==
    IF queries = <<>> THEN Ok(<<>>)
    ELSE FirstValid(items, queries, valid, query(items, Head(queries)[1], Head(queries)[2]))

select_first(items, queries) == select_first_where(items, queries, "default")

\* The inner loop of select_many_where over one query's results
RECURSIVE CollectUnique(_, _, _)
CollectUnique(out, rs, valid) ==
    IF rs = <<>> THEN out
    ELSE CollectUnique(IF /\ Valid(valid, Head(rs))
                          /\ Head(rs) \notin {out[k] : k \in 1 .. Len(out)}
                       THEN Append(out, Head(rs)) ELSE out,
                       Tail(rs), valid)

RECURSIVE SelectManyLoop(_, _, _, _)
SelectManyNext(items, queries, valid, out, result) ==
    IF result.err # "none" THEN result
    ELSE SelectManyLoop(items, Tail(queries), valid, CollectUnique(out, result.val, valid))

SelectManyLoop(items, queries, valid, out) ==
    IF queries = <<>> THEN Ok(out)
    ELSE SelectManyNext(items, queries, valid, out,
                        query(items, Head(queries)[1], Head(queries)[2]))

select_many_where(items, queries, valid) == SelectManyLoop(items, queries, valid, <<>>)

select_many(items, queries) == select_many_where(items, queries, "default")

RECURSIVE QueryBatchLoop(_, _, _)
QueryBatchNext(items, queries, out, result) ==
    IF result.err # "none" THEN result
    ELSE QueryBatchLoop(items, Tail(queries), Append(out, result.val))

QueryBatchLoop(items, queries, out) ==
    IF queries = <<>> THEN Ok(out)
    ELSE QueryBatchNext(items, queries, out, query(items, Head(queries)[1], Head(queries)[2]))

query_batch(items, queries) == QueryBatchLoop(items, queries, <<>>)

add_text(items, content) == Append(items, _ContentItem(content, "TEXT"))

\* add_html putting the new item first
add_html_front(items, content) == <<_ContentItem(content, "HTML")>> \o items

add_html(items, content) == Append(items, _ContentItem(content, "HTML"))

add_json(items, content) == Append(items, _ContentItem(content, "JSON"))

content_count(items) == Len(items)

\* clear leaving the store as it is
clear_keep(items) == items

clear(items) == <<>>

(***************************************************************************)
(* The state: the store of a ChadSelect instance, the add_* calls made     *)
(* since the store was created or last cleared, whether the last change of *)
(* the store was a clear that removed items, the call whose result the     *)
(* caller holds, a remembered earlier query with its result, and the calls  *)
(* that threads sharing the instance are in the middle of.                 *)
(***************************************************************************)
Call(op, index, query_str, queries, valid, out, calls) ==
    [op |-> op, index |-> index, query |-> query_str, queries |-> queries,
     valid |-> valid, out |-> out, calls |-> calls]

NoCall == Call("none", 0, "", <<>>, "", Ok(<<>>), <<>>)

\* A thread's call: where it is (pc), the method (op), its (index, query) pairs
\* and the one it is at (pos), the validity check, the position in
\* self._content_list (i), the local all_results of the running query, the
\* combinator's accumulator (acc), the store as it was at the call, and the
\* outcome once the call is done
Thread(pc, op, queries, valid, pos, i, all_results, acc, store, out) ==
    [pc |-> pc, op |-> op, queries |-> queries, valid |-> valid, pos |-> pos, i |-> i,
     all_results |-> all_results, acc |-> acc, store |-> store, out |-> out]

IdleThread == Thread("idle", "none", <<>>, "", 1, 1, <<>>, <<>>, <<>>, Ok(<<>>))

Init ==
    /\ content_list = <<>>
    /\ added = <<>>
    /\ cleared = FALSE
    /\ last = NoCall
    /\ memo = NoCall
    /\ threads = [t \in 1 .. MaxThreads |-> IdleThread]

AddText(content) ==
    /\ last.op = "none"
    /\ Len(content_list) < MaxItems
    /\ content_list' = add_text(content_list, content)
    /\ added' = Append(added, <<"add_text", content>>)
    /\ cleared' = FALSE
    /\ memo' = NoCall
    /\ UNCHANGED <<last, threads>>

AddHtml(content) ==
    /\ last.op = "none"
    /\ Len(content_list) < MaxItems
    /\ content_list' = add_html(content_list, content)
    /\ added' = Append(added, <<"add_html", content>>)
    /\ cleared' = FALSE
    /\ memo' = NoCall
    /\ UNCHANGED <<last, threads>>

AddJson(content) ==
    /\ last.op = "none"
    /\ Len(content_list) < MaxItems
    /\ content_list' = add_json(content_list, content)
    /\ added' = Append(added, <<"add_json", content>>)
    /\ cleared' = FALSE
    /\ memo' = NoCall
    /\ UNCHANGED <<last, threads>>

Clear ==
    /\ last.op = "none"
    /\ content_list' = clear(content_list)
    /\ added' = <<>>
    /\ cleared' = (added # <<>>)
    /\ memo' = NoCall
    /\ UNCHANGED <<last, threads>>

ContentCount ==
    /\ last.op = "none"
    /\ last' = Call("content_count", 0, "", <<>>, "", Ok(content_count(content_list)), <<>>)
    /\ UNCHANGED <<content_list, added, cleared, memo, threads>>

ParseQuery(query_str) ==
    /\ last.op = "none"
    /\ last' = Call("parse_query", 0, query_str, <<>>, "", Ok(parse_query(query_str)), <<>>)
    /\ UNCHANGED <<content_list, added, cleared, memo, threads>>

\* The record of a query call: its result, and the engine calls it made
QueryCall(index, query_str, all) ==
    Call("query", index, query_str, <<>>, "", QueryReturn(all.out, index), all.calls)

\* query emptying the store it has read
QueryDrain(index, query_str) ==
    /\ last.op = "none"
    /\ last' = QueryCall(index, query_str, Aggregate(content_list, query_str))
    /\ content_list' = <<>>
    /\ UNCHANGED <<added, cleared, memo, threads>>

Query(index, query_str) ==
    /\ last.op = "none"
    /\ last' = QueryCall(index, query_str, Aggregate(content_list, query_str))
    /\ UNCHANGED <<content_list, added, cleared, memo, threads>>

Select(index, query_str) ==
    /\ last.op = "none"
    /\ last' = Call("select", index, query_str, <<>>, "default",
                    select(content_list, index, query_str), <<>>)
    /\ UNCHANGED <<content_list, added, cleared, memo, threads>>

SelectWhere(index, query_str, valid) ==
    /\ last.op = "none"
    /\ last' = Call("select_where", index, query_str, <<>>, valid,
                    select_where(content_list, index, query_str, valid), <<>>)
    /\ UNCHANGED <<content_list, added, cleared, memo, threads>>

SelectFirst(queries) ==
    /\ last.op = "none"
    /\ last' = Call("select_first", 0, "", queries, "default",
                    select_first(content_list, queries), <<>>)
    /\ UNCHANGED <<content_list, added, cleared, memo, threads>>

SelectFirstWhere(queries, valid) ==
    /\ last.op = "none"
    /\ last' = Call("select_first_where", 0, "", queries, valid,
                    select_first_where(content_list, queries, valid), <<>>)
    /\ UNCHANGED <<content_list, added, cleared, memo, threads>>

\* select_many dropping the last item of the store it has read
SelectManyDrop(queries) ==
    /\ last.op = "none"
    /\ last' = Call("select_many", 0, "", queries, "default",
                    select_many(content_list, queries), <<>>)
    /\ content_list' = SubSeq(content_list, 1, Len(content_list) - 1)
    /\ UNCHANGED <<added, cleared, memo, threads>>

SelectMany(queries) ==
    /\ last.op = "none"
    /\ last' = Call("select_many", 0, "", queries, "default",
                    select_many(content_list, queries), <<>>)
    /\ UNCHANGED <<content_list, added, cleared, memo, threads>>

SelectManyWhere(queries, valid) ==
    /\ last.op = "none"
    /\ last' = Call("select_many_where", 0, "", queries, valid,
                    select_many_where(content_list, queries, valid), <<>>)
    /\ UNCHANGED <<content_list, added, cleared, memo, threads>>

QueryBatch(queries) ==
    /\ last.op = "none"
    /\ last' = Call("query_batch", 0, "", queries, "",
                    query_batch(content_list, queries), <<>>)
    /\ UNCHANGED <<content_list, added, cleared, memo, threads>>

\* The caller takes the result of the call and goes on
Return ==
    /\ last.op # "none"
    /\ last' = NoCall
    /\ UNCHANGED <<content_list, added, cleared, memo, threads>>

Next ==
    \/ \E content \in TextInputs : AddText(content)
    \/ \E content \in HtmlInputs : AddHtml(content)
    \/ \E content \in JsonInputs : AddJson(content)
    \/ Clear
    \/ ContentCount
    \/ \E query_str \in ParseInputs : ParseQuery(query_str)
    \/ \E index \in Indexes, query_str \in Queries : Query(index, query_str)
    \/ \E index \in Indexes, query_str \in SelectQueries : Select(index, query_str)
    \/ \E index \in Indexes, query_str \in SelectQueries, valid \in Validators \ {"default"} :
          SelectWhere(index, query_str, valid)
    \/ \E queries \in QueryLists : SelectFirst(queries)
    \/ \E queries \in QueryLists, valid \in Validators \ {"default"} :
          SelectFirstWhere(queries, valid)
    \/ \E queries \in QueryLists : SelectMany(queries)
    \/ \E queries \in QueryLists, valid \in Validators \ {"default"} :
          SelectManyWhere(queries, valid)
    \/ \E queries \in QueryLists : QueryBatch(queries)
    \/ Return

Spec == Init /\ [][Next]_vars

(***************************************************************************)
(* Repeated queries: the caller keeps the result of a query and compares   *)
(* it with the result of the same query run again later on.                *)
(***************************************************************************)
IdemIndexes == {-1, 0}

\* The caller keeps the result of a query
Remember ==
    /\ last.op = "query"
    /\ memo' = last
    /\ last' = NoCall
    /\ UNCHANGED <<content_list, added, cleared, threads>>

NextIdem ==
    \/ AddText(P_TEXT)
    \/ AddHtml(P_HTML)
    \/ AddJson(P_JSON)
    \/ Clear
    \/ \E index \in IdemIndexes, query_str \in SelectQueries : Query(index, query_str)
    \/ Remember
    \/ Return

SpecIdem == Init /\ [][NextIdem]_vars

(***************************************************************************)
(* JSON stores holding a document json.loads refuses.                      *)
(***************************************************************************)
BigJsonInputs == {P_JSON, P_BIGNUM}

JsonQueries ==
    {"json:a", "json:l", "json:zz[", "xpath://p", "css:p", "json:n", "json:zz", "json:l[3]",
     "json:l[4][0]", "json:@", "json:l >> uppercase()", "json: @ >> substring(0, 5)"}

NextJson ==
    \/ \E content \in BigJsonInputs : AddJson(content)
    \/ Clear
    \/ \E index \in Indexes, query_str \in JsonQueries : Query(index, query_str)
    \/ Return

SpecJson == Init /\ [][NextJson]_vars

(***************************************************************************)
(* CSS queries over HTML stores whose elements have, lack, or have an      *)
(* empty attribute.                                                        *)
(***************************************************************************)
CssInputs == {P_HTML, P_ATTRS, P_BLOCKS}

CssQueries ==
    {"css:a", "css:p", "css:i", "css:a[",
     "css:a >> get-attr('id')", "css:p >> get-attr(\"id\")", "css:b >> get-attr('class')",
     "css:a >> get-attr('id') >> uppercase()", "css:p >> uppercase() >> get-attr('id')",
     "css:a:has-text('1') >> get-attr('id')", "css:p >> get-attr(id)",
     "css:a >> substring-after('1')"}

\* Selectors with one text predicate, each with its base, the predicate's
\* name and argument, and its trailing selector
PseudoQueries ==
    {<<"css:div:has-text('E:') i", "div", "has-text", "E:", "i">>,
     <<"css::has-text('E:') i", "", "has-text", "E:", "i">>,
     <<"css::has-text('a1')", "", "has-text", "a1", "">>,
     <<"css:div:has-text('zz') i", "div", "has-text", "zz", "i">>,
     <<"css:div:has-text('') b", "div", "has-text", "", "b">>,
     <<"css:div:has-text(\"E:\")   i[", "div", "has-text", "E:", "i[">>,
     <<"css:q:has-text('E:')", "q", "has-text", "E:", "">>,
     <<"css:div[:has-text('E:')", "div[", "has-text", "E:", "">>,
     <<"css:div:contains-text('x1')", "div", "contains-text", "x1", "">>,
     <<"css:div:contains-text('E: x1')", "div", "contains-text", "E: x1", "">>,
     <<"css:div:text-equals('I:y2') b", "div", "text-equals", "I:y2", "b">>,
     <<"css:div:text-equals('I:') b", "div", "text-equals", "I:", "b">>,
     <<"css:i:text-equals('y2')", "i", "text-equals", "y2", "">>,
     <<"css:i:text-starts('y')", "i", "text-starts", "y", "">>,
     <<"css:p:text-starts(' ')", "p", "text-starts", " ", "">>,
     <<"css:div:text-starts('x1') i", "div", "text-starts", "x1", "i">>,
     <<"css:div:text-ends('1') i", "div", "text-ends", "1", "i">>,
     <<"css:div :text-ends('E:')", "div ", "text-ends", "E:", "">>,
     <<"css:a:text-ends('')", "a", "text-ends", "", "">>}

\* CSS queries whose chain holds a get-attr call as one of its steps, each
\* with its selector, the attribute and the other steps of the chain in order
GetAttrQueries ==
    {<<"css:a >> get-attr('id')", "a", "id", <<>>>>,
     <<"css:* >> get-attr('id') >> uppercase()", "*", "id", <<"uppercase()">>>>,
     <<"css:* >> uppercase() >> get-attr('id')", "*", "id", <<"uppercase()">>>>,
     <<"css:* >> uppercase() >> get-attr(\"id\") >> lowercase() >> replace('k', 'xy')",
       "*", "id", <<"uppercase()", "lowercase()", "replace('k', 'xy')">>>>,
     <<"css:*>>get-attr('id')>>uppercase()>>substring(0, 1)", "*", "id",
       <<"uppercase()", "substring(0, 1)">>>>,
     <<"css:*>>replace('k', 'kk')>>get-attr('id')", "*", "id", <<"replace('k', 'kk')">>>>,
     <<"css:* >>   get-attr('id')   >> >> substring-after('k')", "*", "id",
       <<"substring-after('k')">>>>,
     <<"css:p >> replace('k', 'a b') >> get-attr('id') >> replace(' ', '  ')", "p", "id",
       <<"replace('k', 'a b')", "replace(' ', '  ')">>>>,
     <<"css:b >> substring-before('m') >> get-attr('id') >> foo", "b", "id",
       <<"substring-before('m')", "foo">>>>,
     <<"css:* >> get-attr('data-x') >> uppercase()", "*", "data-x", <<"uppercase()">>>>,
     <<"css:* >> lowercase() >> get-attr('id') >> ", "*", "id", <<"lowercase()">>>>}

NextCss ==
    \/ \E content \in CssInputs : AddHtml(content)
    \/ Clear
    \/ \E index \in Indexes, query_str \in CssQueries : Query(index, query_str)
    \/ \E index \in Indexes, q \in PseudoQueries : Query(index, q[1])
    \/ \E index \in Indexes, q \in GetAttrQueries : Query(index, q[1])
    \/ Return

SpecCss == Init /\ [][NextCss]_vars

(***************************************************************************)
(* The function pipeline on its own: parse_and_apply run step by step.     *)
(* last holds the working list (out), the call tokens still to run         *)
(* (queries), the number of steps applied (index) and, for every step      *)
(* applied, the token, the list _apply_one received, the list it returned  *)
(* and the list left after the filter (calls); memo holds the list the     *)
(* pipeline started from.                                                  *)
(***************************************************************************)
MaxChain == 2

\* The working lists an engine hands to the pipeline: no empty string
PipeInputs == {<<"a1 b2">>, <<"a1", "b2", "a.1">>, <<" x1 ", "1">>}

\* substring-after and substring-before calls, each with its delimiter
AfterSteps ==
    {<<"substring-after(' ')", " ">>, <<"substring-after('1')", "1">>,
     <<"substring-after(\"zz\")", "zz">>, <<"substring-after(b2)", "b2">>,
     <<"substring-after( 'a1 ' )", "a1 ">>, <<"substring-after(a)", "a">>}

BeforeSteps ==
    {<<"substring-before(' ')", " ">>, <<"substring-before('a')", "a">>,
     <<"substring-before(\"zz\")", "zz">>, <<"substring-before(1)", "1">>}

\* substring calls whose two arguments are integers, with start and length
SubstringSteps ==
    {<<"substring(0, 2)", 0, 2>>, <<"substring(1,1)", 1, 1>>, <<"substring( 3 , 10 )", 3, 10>>,
     <<"substring(9, 1)", 9, 1>>, <<"substring(0, 0)", 0, 0>>, <<"substring(+1, 2, 7)", 1, 2>>,
     <<"substring(-2, 1)", -2, 1>>, <<"substring(0, -1)", 0, -1>>}

\* substring calls with an argument that is no integer, or fewer than two
BadSubstringSteps == {"substring(x, 1)", "substring(1, )", "substring(1)", "substring()", "substring"}

\* replace calls with two quoted strings, with find and repl
ReplaceSteps ==
    {<<"replace('1', 'xy')", "1", "xy">>, <<"replace(\"a\",\"\")", "a", "">>,
     <<"replace( '.',   '-' )", ".", "-">>, <<"replace('zz', 'q')", "zz", "q">>,
     <<"replace('a1', '')", "a1", "">>, <<"replace(' ', '_')", " ", "_">>}

\* replace calls of another shape
BadReplaceSteps == {"replace(1, 2)", "replace('1')", "replace('1' 'x')", "replace()", "replace"}

\* Calls of functions the pipeline does not know
UnknownSteps == {"foo", "foo('1')", "Trim()", "sub-string(0, 1)"}

PlainSteps == {"trim", "uppercase()", "lowercase()", "normalize-space()", "get-attr('id')", ""}

FirstTokens ==
    {st[1] : st \in AfterSteps \cup BeforeSteps \cup SubstringSteps \cup ReplaceSteps}
    \cup BadSubstringSteps \cup BadReplaceSteps \cup UnknownSteps \cup PlainSteps

\* The tokens that may follow the first one
NextTokens ==
    {"uppercase()", "substring-after('1')", "substring-before('a')", "substring(1, 1)",
     "replace('1', 'xy')", "foo", ""}

\* The chain strings after a first token: up to n further tokens
RECURSIVE ChainTails(_)
ChainTails(n) ==
    IF n = 0 THEN {""}
    ELSE {""} \cup {" >> " \o t \o r : t \in NextTokens, r \in ChainTails(n - 1)}

Chains == {t \o r : t \in FirstTokens, r \in ChainTails(MaxChain - 1)}

\* parse_and_apply is entered: an empty chain returns the list at once,
\* otherwise the chain is split into its tokens
PipeStart(results, func_chain_str) ==
    /\ last.op = "none"
    /\ last' = Call("parse_and_apply", 0, func_chain_str,
                    IF Strip(func_chain_str) = "" THEN <<>>
                    ELSE Split(func_chain_str, FUNCTION_PIPE),
                    "", Ok(results), <<>>)
    /\ memo' = Call("parse_and_apply", 0, func_chain_str, <<>>, "", Ok(results), <<>>)
    /\ UNCHANGED <<content_list, added, cleared, threads>>

\* One iteration of the loop of parse_and_apply: an empty token is skipped,
\* any other is applied and the empty strings are removed
PipeStep ==
    /\ last.op = "parse_and_apply"
    /\ last.queries # <<>>
    /\ last' = IF Strip(Head(last.queries)) = ""
               THEN [last EXCEPT !.queries = Tail(@)]
               ELSE [last EXCEPT
                       !.queries = Tail(@),
                       !.index = @ + 1,
                       !.out = Ok(ApplyChain(last.out.val, <<Head(last.queries)>>)),
                       !.calls = Append(@, [func |-> Strip(Head(last.queries)),
                                            input |-> last.out.val,
                                            raw |-> _apply_one(last.out.val,
                                                               Strip(Head(last.queries))),
                                            output |-> ApplyChain(last.out.val,
                                                                  <<Head(last.queries)>>)])]
    /\ UNCHANGED <<content_list, added, cleared, memo, threads>>

\* parse_and_apply returns the working list
PipeReturn ==
    /\ last.op = "parse_and_apply"
    /\ last.queries = <<>>
    /\ last' = NoCall
    /\ memo' = NoCall
    /\ UNCHANGED <<content_list, added, cleared, threads>>

NextPipe ==
    \/ \E results \in PipeInputs, func_chain_str \in Chains : PipeStart(results, func_chain_str)
    \/ PipeStep
    \/ PipeReturn

SpecPipe == Init /\ [][NextPipe]_vars

(***************************************************************************)
(* XPath queries over TEXT and HTML stores, for every kind of value an     *)
(* XPath 1.0 expression has: a node list, a string, a number, a boolean.   *)
(***************************************************************************)
XPathHtmlInputs == {P_HTML, P_BLOCKS}

\* Expressions whose value is a string or a list of elements, text nodes or
\* attributes, and expressions the evaluator rejects
XPathShapeQueries ==
    {"xpath://p", "xpath://i", "xpath://p/text()", "xpath://p/@id", "xpath:string(//p)",
     "xpath://p[", "xpath:", "xpath://p >> uppercase()", "xpath:string(//p) >> substring(0, 1)",
     "xpath: //i >> replace('2', '')"}

\* Expressions whose value is a number or a boolean
XPathScalarQueries == {"xpath:count(//p)", "xpath:boolean(//p)", "xpath:count(//p) >> trim"}

NextXPath ==
    \/ \E content \in TextInputs : AddText(content)
    \/ \E content \in XPathHtmlInputs : AddHtml(content)
    \/ Clear
    \/ \E index \in Indexes, query_str \in XPathShapeQueries : Query(index, query_str)
    \/ \E index \in Indexes, query_str \in XPathScalarQueries : Query(index, query_str)
    \/ Return

SpecXPath == Init /\ [][NextXPath]_vars

(***************************************************************************)
(* Regex, XPath and JSON queries whose chain holds a get-attr step.        *)
(***************************************************************************)
\* Each query with the same query without its get-attr step
GetAttrPairs ==
    {<<"regex:\\w\\d >> get-attr('id')", "regex:\\w\\d">>,
     <<"regex:\\w\\d >> get-attr('id') >> uppercase()", "regex:\\w\\d >> uppercase()">>,
     <<"(\\w)(\\d)? >> substring(0, 1) >> get-attr(\"href\")", "(\\w)(\\d)? >> substring(0, 1)">>,
     <<"regex:( >> get-attr('id')", "regex:(">>,
     <<"xpath://p >> get-attr('id')", "xpath://p">>,
     <<"xpath://p/@id >> uppercase() >> get-attr('id') >> lowercase()",
       "xpath://p/@id >> uppercase() >> lowercase()">>,
     <<"xpath:count(//p) >> get-attr('id')", "xpath:count(//p)">>,
     <<"json:l >> get-attr('a')", "json:l">>,
     <<"json:a >> get-attr(a) >> replace('1', '')", "json:a >> replace('1', '')">>,
     <<"json:@ >> get-attr()", "json:@">>}

NextGetAttr ==
    \/ AddText(P_TEXT)
    \/ AddHtml(P_HTML)
    \/ AddJson(P_JSON)
    \/ Clear
    \/ \E index \in Indexes, q \in GetAttrPairs : Query(index, q[1])
    \/ Return

SpecGetAttr == Init /\ [][NextGetAttr]_vars

(***************************************************************************)
(* An adapter's use of the pipeline: split_functions on the expression     *)
(* string it was handed, then parse_and_apply on the engine's results when *)
(* the chain is not blank.  memo holds the outcome of split_functions.     *)
(***************************************************************************)
SplitInputs ==
    {"a1", " a1 ", "", "  ", "a|b", " (a|b) ", "x>y", "a > > b", "\ta1\n",
     "a | b >> uppercase()", "a1 >> uppercase() >> substring(0, 1)", "a1>>trim>>",
     ">> uppercase()", "a1 >>", "a1 >>  ", "a1 >> >> lowercase()", "a >>> b",
     "a1 >>>> foo", " a|b >> replace('1', 'x|y') >> foo >> uppercase() ",
     "a1 >> uppercase()|lowercase()", ">>", " >> >> ",
     "//p | //i >> substring-after('1') >> uppercase()",
     "\\w\\d >> replace('1', 'xy') >> substring(1, 1)",
     "a1 >> lowercase() >>normalize-space()>> trim"}

\* expr, func_chain = split_functions(...); ...;
\* if func_chain.strip(): results = parse_and_apply(results, func_chain)
ProcessSplit(input_str, results) ==
    /\ last.op = "none"
    /\ last' = Call("parse_and_apply", 0, input_str,
                    IF Strip(split_functions(input_str)[2]) = "" THEN <<>>
                    ELSE Split(split_functions(input_str)[2], FUNCTION_PIPE),
                    "", Ok(results), <<>>)
    /\ memo' = Call("split_functions", 0, input_str, <<>>, "",
                    Ok(split_functions(input_str)), <<>>)
    /\ UNCHANGED <<content_list, added, cleared, threads>>

NextSplit ==
    \/ \E input_str \in SplitInputs, results \in PipeInputs : ProcessSplit(input_str, results)
    \/ PipeStep
    \/ PipeReturn

SpecSplit == Init /\ [][NextSplit]_vars

(***************************************************************************)
(* Threads sharing one instance.  A thread runs query, or a combinator     *)
(* built on it, one iteration of the loop over self._content_list at a     *)
(* time; another thread may run between any two iterations.  add_* and     *)
(* clear run only while no thread is inside a call; the store is filled as *)
(* tests/test_async.py fills it, HTML first, then JSON.                    *)
(***************************************************************************)
\* The calls a thread makes: the method, its (index, query) pairs, the check
ThreadCalls ==
    {<<"query", <<<<-1, "regex:\\w\\d">>>>, "">>,
     <<"select", <<<<1, "css:*">>>>, "default">>,
     <<"select_first", <<<<0, "json:zz">>, <<-1, "xpath://p">>>>, "default">>,
     <<"select_many", <<<<-1, "regex:\\w\\d">>, <<-1, "css:*">>>>, "default">>,
     <<"query_batch", <<<<-1, "json:l">>, <<0, "xpath:count(//p)">>>>, "">>}

AllIdle == \A t \in 1 .. MaxThreads : threads[t].pc = "idle"

\* A thread enters a method: the first query starts with an empty all_results
ThreadCall(t, call) ==
    /\ threads[t].pc = "idle"
    /\ threads' = [threads EXCEPT ![t] =
                      Thread("loop", call[1], call[2], call[3], 1, 1, <<>>, <<>>,
                             content_list, Ok(<<>>))]
    /\ UNCHANGED <<content_list, added, cleared, last, memo>>

\* all_results.extend(results); an engine call that raises ends the method
ItemDone(th, results) ==
    IF results.err # "none" THEN [th EXCEPT !.pc = "done", !.out = results]
    ELSE [th EXCEPT !.i = @ + 1, !.all_results = @ \o results.val]

\* An iteration whose results reach the all_results of every running query,
\* as they would if all_results were kept on the instance
ThreadItemShared(t) ==
    /\ threads[t].pc = "loop"
    /\ threads[t].i <= Len(content_list)
    /\ threads' =
          [u \in 1 .. MaxThreads |->
              IF ~is_query_compatible(parse_query(threads[t].queries[threads[t].pos][2])[1],
                                      content_list[threads[t].i].content_type)
              THEN IF u = t THEN [threads[u] EXCEPT !.i = @ + 1] ELSE threads[u]
              ELSE IF u = t \/ threads[u].pc = "loop"
                   THEN ItemDone(IF u = t THEN threads[u] ELSE [threads[u] EXCEPT !.i = @ - 1],
                                 Dispatch(parse_query(threads[t].queries[threads[t].pos][2])[1],
                                          parse_query(threads[t].queries[threads[t].pos][2])[2],
                                          content_list[threads[t].i].content))
                   ELSE threads[u]]
    /\ UNCHANGED <<content_list, added, cleared, last, memo>>

\* One iteration of the loop of query over self._content_list
ThreadItem(t) ==
    /\ threads[t].pc = "loop"
    /\ threads[t].i <= Len(content_list)
    /\ threads' =
          [threads EXCEPT ![t] =
              IF ~is_query_compatible(parse_query(@.queries[@.pos][2])[1],
                                      content_list[@.i].content_type)
              THEN [@ EXCEPT !.i = @ + 1]
              ELSE ItemDone(@, Dispatch(parse_query(@.queries[@.pos][2])[1],
                                        parse_query(@.queries[@.pos][2])[2],
                                        content_list[@.i].content))]
    /\ UNCHANGED <<content_list, added, cleared, last, memo>>

\* The method goes on to its next pair with the accumulator acc, or returns
\* final after the last pair
NextPair(th, acc, final) ==
    IF th.pos = Len(th.queries) THEN [th EXCEPT !.pc = "done", !.acc = acc, !.out = final]
    ELSE [th EXCEPT !.pos = @ + 1, !.i = 1, !.all_results = <<>>, !.acc = acc]

\* query has returned result to the method that called it
QueryEnd(th, result) ==
    CASE th.op = "query" -> [th EXCEPT !.pc = "done", !.out = Ok(result)]
      [] th.op = "select" -> [th EXCEPT !.pc = "done", !.out = SelectValid(Ok(result), th.valid)]
      [] th.op = "select_first" ->
           IF result # <<>> /\ \A k \in 1 .. Len(result) : Valid(th.valid, result[k])
           THEN [th EXCEPT !.pc = "done", !.out = Ok(result)]
           ELSE NextPair(th, <<>>, Ok(<<>>))
      [] th.op = "select_many" ->
           NextPair(th, CollectUnique(th.acc, result, th.valid),
                    Ok(CollectUnique(th.acc, result, th.valid)))
      [] th.op = "query_batch" ->
           NextPair(th, Append(th.acc, result), Ok(Append(th.acc, result)))

\* The loop of query is over: return self._select_by_index(all_results, index)
ThreadQueryEnd(t) ==
    /\ threads[t].pc = "loop"
    /\ threads[t].i > Len(content_list)
    /\ threads' = [threads EXCEPT ![t] =
                      QueryEnd(@, _select_by_index(@.all_results, @.queries[@.pos][1]))]
    /\ UNCHANGED <<content_list, added, cleared, last, memo>>

\* The caller on thread t takes the outcome
ThreadReturn(t) ==
    /\ threads[t].pc = "done"
    /\ threads' = [threads EXCEPT ![t] = IdleThread]
    /\ UNCHANGED <<content_list, added, cleared, last, memo>>

NextThreads ==
    \/ AllIdle /\ content_list = <<>> /\ AddHtml(P_HTML)
    \/ AllIdle /\ content_list # <<>> /\ AddJson(P_JSON)
    \/ AllIdle /\ Clear
    \/ \E t \in 1 .. MaxThreads, call \in ThreadCalls : ThreadCall(t, call)
    \/ \E t \in 1 .. MaxThreads : ThreadItem(t)
    \/ \E t \in 1 .. MaxThreads : ThreadQueryEnd(t)
    \/ \E t \in 1 .. MaxThreads : ThreadReturn(t)

SpecThreads == Init /\ [][NextThreads]_vars

(***************************************************************************)
(* Properties of the orchestrator, the router and the store.               *)
(***************************************************************************)
\* The compatibility matrix as pairs (grammar, content type)
CompatibilityMatrix ==
    {<<"REGEX", "TEXT">>, <<"REGEX", "HTML">>, <<"REGEX", "JSON">>,
     <<"XPATH", "TEXT">>, <<"XPATH", "HTML">>,
     <<"JSON", "JSON">>,
     <<"CSS", "HTML">>}

\* The items of a store the matrix lets a grammar read, in order
RECURSIVE CompatibleItems(_, _)
CompatibleItems(items, grammar) ==
    IF items = <<>> THEN <<>>
    ELSE (IF <<grammar, Head(items).content_type>> \in CompatibilityMatrix
          THEN <<Head(items)>> ELSE <<>>)
         \o CompatibleItems(Tail(items), grammar)

\* C1: a query of grammar G hands no item of a type outside the compatibility
\* matrix to an adapter, and such items add nothing to the result: the result is
\* that of the same query on the store without them.
C1_IncompatibleNeverDispatched ==
    last.op = "query" =>
        /\ \A k \in 1 .. Len(last.calls) :
              /\ last.calls[k].engine = parse_query(last.query)[1]
              /\ <<last.calls[k].engine, content_list[last.calls[k].item].content_type>>
                    \in CompatibilityMatrix
        /\ last.out = query(CompatibleItems(content_list, parse_query(last.query)[1]),
                            last.index, last.query)

\* C1 witness: a CSS query over a TEXT item and an HTML item holding the same
\* markup returns the HTML item's match only.
C1_Witness ==
    /\ last.op = "query"
    /\ last.query = "css:p"
    /\ last.index = -1
    /\ content_list = <<_ContentItem(P_HTML, "TEXT"), _ContentItem(P_HTML, "HTML")>>
    /\ last.out = Ok(<<"a1">>)

\* C2: with L the aggregated results of q, query(-1, q) returns L, query(n, q)
\* returns [L[n]] for 0 <= n < len(L) and the empty list for n >= len(L) and for
\* n < -1; query(-1, q) is at least as long as any query(n, q).
C2_IndexSelection ==
    last.op = "query" =>
        LET L == Aggregate(content_list, last.query).out.val
            n == last.index
        IN  /\ n = -1 => last.out = Ok(L)
            /\ (0 <= n /\ n < Len(L)) => last.out = Ok(<<L[n + 1]>>)
            /\ n >= Len(L) => last.out = Ok(<<>>)
            /\ n < -1 => last.out = Ok(<<>>)
            /\ Len(query(content_list, -1, last.query).val) >= Len(last.out.val)

\* The strings each item yields in a store of its own, one item after the other
RECURSIVE PerItemResults(_, _)
PerItemResults(items, query_str) ==
    IF items = <<>> THEN <<>>
    ELSE query(<<Head(items)>>, -1, query_str).val \o PerItemResults(Tail(items), query_str)

\* C3: the strings of query(-1, q) are the concatenation, in insertion order, of
\* the strings each item yields in a store of its own, so that a failure in one
\* item removes no string of another item; an index n >= 0 is a position in
\* that concatenation.
C3_PerItemConcatenation ==
    last.op = "query" =>
        LET L == PerItemResults(content_list, last.query)
        IN  /\ last.index = -1 => last.out.val = L
            /\ (0 <= last.index /\ last.index < Len(L)) => last.out.val = <<L[last.index + 1]>>

\* C4: query, select, select_first, select_many, query_batch and their _where
\* variants return a value whatever the store, the index and the query string.
C4_PublicOperationsTotal ==
    last.op \in {"query", "select", "select_where", "select_first", "select_first_where",
                 "select_many", "select_many_where", "query_batch"}
        => last.out.err = "none"

\* The literal prefixes and the grammar each one selects
Prefixes ==
    {<<"regex:", "REGEX">>, <<"json:", "JSON">>, <<"xpath:", "XPATH">>, <<"css:", "CSS">>}

BeginsWith(s, pre) == \E n \in 0 .. Len(s) : SubSeq(s, 1, n) = pre

\* C5: parse_query(s) returns the grammar of the literal prefix s begins with and
\* the rest of s, the prefix followed by the rest being s; without such a prefix
\* it returns REGEX and the whole of s.
C5_ParseQuery ==
    last.op = "parse_query" =>
        /\ last.out.err = "none"
        /\ \A p \in Prefixes :
              BeginsWith(last.query, p[1]) =>
                  /\ last.out.val[1] = p[2]
                  /\ p[1] \o last.out.val[2] = last.query
        /\ (\A p \in Prefixes : ~BeginsWith(last.query, p[1])) =>
              last.out.val = <<"REGEX", last.query>>

\* C5 witness: a prefix that is not at position 0 leaves the whole string to REGEX.
C5_Witness ==
    /\ last.op = "parse_query"
    /\ last.query = " css:json:a"
    /\ last.out = Ok(<<"REGEX", " css:json:a">>)

\* The content type an add_* call gives its item
TypeOfAdd(op) ==
    CASE op = "add_text" -> "TEXT"
      [] op = "add_html" -> "HTML"
      [] op = "add_json" -> "JSON"

\* C6: the store holds exactly the items added since it was created or last
\* cleared, in call order, each with the content type of its add_* call, and
\* content_count() is their number.
C6_StoreIsAddsSinceClear ==
    /\ Len(content_list) = Len(added)
    /\ \A i \in 1 .. Len(added) :
          content_list[i] = [content |-> added[i][2], content_type |-> TypeOfAdd(added[i][1])]
    /\ last.op = "content_count" => last.out = Ok(Len(added))

\* C6 witness: content_count() after an add_html and an add_json of the same payload.
C6_Witness ==
    /\ last.op = "content_count"
    /\ last.out = Ok(2)
    /\ added = <<<<"add_html", P_JSON>>, <<"add_json", P_JSON>>>>

\* C7: on a store nothing was added to since it was created or last cleared,
\* query returns the empty list for every index and every query string.
C7_EmptyStoreYieldsNothing ==
    (added = <<>> /\ last.op = "query") => last.out = Ok(<<>>)

\* C7 witness: a query for everything a regex matches, run right after a clear
\* that removed items.
C7_Witness ==
    /\ cleared
    /\ added = <<>>
    /\ last.op = "query"
    /\ last.query = "regex:\\w\\d"
    /\ last.index = -1

Accepts(p, x) == IF p = "default" THEN Strip(x) # "" ELSE Valid(p, x)

\* C9: select_where(index, q, p) returns the first element of query(index, q) when
\* there is one and p accepts it, and the empty string otherwise; select uses
\* the default predicate.
C9_SelectWhere ==
    last.op \in {"select", "select_where"} =>
        LET r == query(content_list, last.index, last.query).val
        IN  /\ last.op = "select" => last.valid = "default"
            /\ last.out = Ok(IF r # <<>> /\ Accepts(last.valid, r[1]) THEN r[1] ELSE "")

\* Whether a result list is non-empty with every element accepted
Qualifies(r, p) == r # <<>> /\ \A k \in 1 .. Len(r) : Accepts(p, r[k])

\* C10: select_first_where returns query(index_j, q_j) for the smallest j whose
\* result is non-empty with every element accepted by p, and the empty list
\* when there is no such j; select_first uses the default predicate.
C10_SelectFirstWhere ==
    last.op \in {"select_first", "select_first_where"} =>
        LET R(j) == query(content_list, last.queries[j][1], last.queries[j][2]).val
            js   == {j \in 1 .. Len(last.queries) : Qualifies(R(j), last.valid)}
        IN  /\ last.op = "select_first" => last.valid = "default"
            /\ last.out = Ok(IF js = {} THEN <<>>
                             ELSE R(CHOOSE j \in js : \A i \in js : j <= i))

\* The results of the pairs run one by one, concatenated in pair order
RECURSIVE ConcatResults(_, _)
ConcatResults(items, queries) ==
    IF queries = <<>> THEN <<>>
    ELSE query(items, Head(queries)[1], Head(queries)[2]).val
         \o ConcatResults(items, Tail(queries))

\* The strings of xs that p accepts, each at its first occurrence only
RECURSIVE FirstOccurrences(_, _)
FirstOccurrences(xs, p) ==
    IF xs = <<>> THEN <<>>
    ELSE IF /\ Accepts(p, xs[Len(xs)])
            /\ \A k \in 1 .. Len(xs) - 1 : xs[k] # xs[Len(xs)]
         THEN Append(FirstOccurrences(SubSeq(xs, 1, Len(xs) - 1), p), xs[Len(xs)])
         ELSE FirstOccurrences(SubSeq(xs, 1, Len(xs) - 1), p)

\* C11: select_many_where returns, without repetition and in order of first
\* occurrence, exactly the strings of the concatenated results of the pairs
\* that p accepts; select_many uses the default predicate.
C11_SelectManyWhere ==
    last.op \in {"select_many", "select_many_where"} =>
        /\ last.op = "select_many" => last.valid = "default"
        /\ last.out = Ok(FirstOccurrences(ConcatResults(content_list, last.queries),
                                          last.valid))

\* C12: query_batch returns one result list per pair, the j-th being
\* query(index_j, q_j) run on its own, duplicates kept; no pairs give no lists.
C12_QueryBatch ==
    last.op = "query_batch" =>
        /\ last.out.err = "none"
        /\ Len(last.out.val) = Len(last.queries)
        /\ \A j \in 1 .. Len(last.queries) :
              Ok(last.out.val[j]) = query(content_list, last.queries[j][1], last.queries[j][2])

(***************************************************************************)
(* Properties of the function pipeline.                                    *)
(***************************************************************************)
\* The elements of a list, as a set
Elements(xs) == {xs[k] : k \in 1 .. Len(xs)}

\* C13: after every applied step, the first included, the working list is the
\* step's result with every empty string removed, so no later step receives
\* an empty string and the list a chain with a step returns holds none.
C13_EmptiesRemovedAfterEveryStep ==
    last.op = "parse_and_apply" =>
        /\ \A k \in 1 .. Len(last.calls) :
              /\ last.calls[k].output = SelectSeq(last.calls[k].raw, LAMBDA x : x # "")
              /\ k > 1 => /\ last.calls[k].input = last.calls[k - 1].output
                          /\ "" \notin Elements(last.calls[k].input)
        /\ last.calls # <<>> =>
              /\ last.out.val = last.calls[Len(last.calls)].output
              /\ "" \notin Elements(last.out.val)

\* A first step has produced an empty string and a second step has run
C13_Witness ==
    /\ last.op = "parse_and_apply"
    /\ Len(last.calls) = 2
    /\ "" \in Elements(last.calls[1].raw)
    /\ last.calls[2].input # <<>>

\* The positions (from 0) at which d occurs in s
Occurrences(s, d) == {i \in 0 .. Len(s) - Len(d) : SubSeq(s, i + 1, i + Len(d)) = d}

FirstOccurrence(s, d) == CHOOSE i \in Occurrences(s, d) : \A j \in Occurrences(s, d) : i <= j

\* The part of s after the first occurrence of d, "" when d does not occur
Following(s, d) ==
    IF Occurrences(s, d) = {} THEN ""
    ELSE SubSeq(s, FirstOccurrence(s, d) + Len(d) + 1, Len(s))

\* C14: the step substring-after(d) yields, for every string of the list in
\* order, the part that follows the first occurrence of d, and no entry at all
\* for a string in which d does not occur or is followed by nothing.
C14_SubstringAfter ==
    last.op = "parse_and_apply" =>
        \A k \in 1 .. Len(last.calls) : \A st \in AfterSteps :
            last.calls[k].func = st[1] =>
                last.calls[k].raw =
                    SelectSeq([n \in 1 .. Len(last.calls[k].input) |->
                                  Following(last.calls[k].input[n], st[2])],
                              LAMBDA x : x # "")

\* A substring-after step has dropped a string without the delimiter and kept
\* the tail of another
C14_Witness ==
    /\ last.op = "parse_and_apply"
    /\ \E k \in 1 .. Len(last.calls) : \E st \in AfterSteps :
          /\ last.calls[k].func = st[1]
          /\ last.calls[k].raw # <<>>
          /\ \E n \in 1 .. Len(last.calls[k].input) :
                Occurrences(last.calls[k].input[n], st[2]) = {}

\* The part of s before the first occurrence of d, s itself when d does not occur
Preceding(s, d) ==
    IF Occurrences(s, d) = {} THEN s ELSE SubSeq(s, 1, FirstOccurrence(s, d))

\* C15: the step substring-before(d) yields, for every string of the list, the
\* part that precedes the first occurrence of d, and the string unchanged when
\* d does not occur in it.
C15_SubstringBefore ==
    last.op = "parse_and_apply" =>
        \A k \in 1 .. Len(last.calls) : \A st \in BeforeSteps :
            last.calls[k].func = st[1] =>
                last.calls[k].raw =
                    [n \in 1 .. Len(last.calls[k].input) |->
                        Preceding(last.calls[k].input[n], st[2])]

\* A substring-before step has cut one string and kept another, without the
\* delimiter, unchanged
C15_Witness ==
    /\ last.op = "parse_and_apply"
    /\ \E k \in 1 .. Len(last.calls) : \E st \in BeforeSteps :
          /\ last.calls[k].func = st[1]
          /\ \E n, m \in 1 .. Len(last.calls[k].input) :
                /\ Occurrences(last.calls[k].input[n], st[2]) = {}
                /\ last.calls[k].raw[n] = last.calls[k].input[n]
                /\ Occurrences(last.calls[k].input[m], st[2]) # {}
                /\ last.calls[k].raw[m] # last.calls[k].input[m]

\* The characters of s at positions start .. start + length - 1 (from 0) that
\* exist in s
Window(s, start, length) ==
    IF (IF start > 0 THEN start ELSE 0)
         >= (IF start + length < Len(s) THEN start + length ELSE Len(s))
    THEN ""
    ELSE SubSeq(s, (IF start > 0 THEN start ELSE 0) + 1,
                IF start + length < Len(s) THEN start + length ELSE Len(s))

\* C16: the step substring(start, length) with two integers yields, for every
\* string, its characters at positions start .. start + length - 1 that exist,
\* for any integers; with an argument that is no integer, or fewer than two
\* arguments, the list passes through unchanged.
C16_Substring ==
    last.op = "parse_and_apply" =>
        \A k \in 1 .. Len(last.calls) :
            /\ \A st \in SubstringSteps :
                  last.calls[k].func = st[1] =>
                      last.calls[k].raw =
                          [n \in 1 .. Len(last.calls[k].input) |->
                              Window(last.calls[k].input[n], st[2], st[3])]
            /\ last.calls[k].func \in BadSubstringSteps =>
                  last.calls[k].raw = last.calls[k].input

\* s with every occurrence of the non-empty literal text find replaced by repl,
\* left to right
RECURSIVE Replaced(_, _, _)
Replaced(s, find, repl) ==
    IF Occurrences(s, find) = {} THEN s
    ELSE SubSeq(s, 1, FirstOccurrence(s, find)) \o repl
         \o Replaced(SubSeq(s, FirstOccurrence(s, find) + Len(find) + 1, Len(s)), find, repl)

RECURSIVE JoinKnown(_)
JoinKnown(tokens) ==
    IF tokens = <<>> THEN ""
    ELSE IF Strip(Head(tokens)) \in UnknownSteps THEN JoinKnown(Tail(tokens))
    ELSE Head(tokens) \o FUNCTION_PIPE \o JoinKnown(Tail(tokens))

\* C18: a step with an unknown function name returns the list it received, and
\* the whole chain returns what the chain without its unknown steps returns.
C18_UnknownStepNoOp ==
    last.op = "parse_and_apply" =>
        /\ \A k \in 1 .. Len(last.calls) :
              last.calls[k].func \in UnknownSteps =>
                  /\ last.calls[k].raw = last.calls[k].input
                  /\ last.calls[k].output = last.calls[k].input
        /\ last.queries = <<>> =>
              last.out = Ok(parse_and_apply(memo.out.val,
                                            JoinKnown(Split(last.query, FUNCTION_PIPE))))

\* A chain with an unknown step and a step that changes the list has run to
\* its end
C18_Witness ==
    /\ last.op = "parse_and_apply"
    /\ last.queries = <<>>
    /\ \E k \in 1 .. Len(last.calls) :
          /\ last.calls[k].func \in UnknownSteps
          /\ last.calls[k].input # <<>>
    /\ last.out.val # memo.out.val

(***************************************************************************)
(* Properties of concurrent reads.                                         *)
(***************************************************************************)
\* The outcome of a method run alone on a store
Alone(op, items, queries, valid) ==
    CASE op = "query" -> query(items, queries[1][1], queries[1][2])
      [] op = "select" -> select(items, queries[1][1], queries[1][2])
      [] op = "select_first" -> select_first(items, queries)
      [] op = "select_many" -> select_many(items, queries)
      [] op = "query_batch" -> query_batch(items, queries)

\* C19: with no add_* or clear running at the same time, every call a thread
\* has finished has the outcome the call has when run alone on the store, in
\* every interleaving, and the store is as it was when the call began.
C19_ConcurrentReads ==
    \A t \in 1 .. MaxThreads :
        /\ threads[t].pc # "idle" => content_list = threads[t].store
        /\ threads[t].pc = "done" =>
              threads[t].out = Alone(threads[t].op, content_list, threads[t].queries,
                                     threads[t].valid)

\* Two threads are inside calls at the same time: one has finished select_many
\* with several values while the other is in the middle of its loop
C19_Witness ==
    \E t, u \in 1 .. MaxThreads :
        /\ t # u
        /\ threads[t].pc = "done"
        /\ threads[t].op = "select_many"
        /\ threads[t].out.err = "none"
        /\ Len(threads[t].out.val) > 1
        /\ threads[u].pc = "loop"
        /\ threads[u].i > 1
        /\ threads[u].all_results # <<>>

(***************************************************************************)
(* Properties of the CSS extraction.                                       *)
(***************************************************************************)
\* What the matched nodes contribute, in match order: with an attribute name
\* the value of every node that has the attribute, without one the stripped
\* text of every node whose stripped text is not empty
RECURSIVE Contributions(_, _, _)
Contributions(doc, nodes, attr) ==
    IF nodes = <<>> THEN <<>>
    ELSE (IF attr # ""
          THEN (IF HasAttr(doc[Head(nodes)].attrs, attr)
                THEN <<AttrGet(doc[Head(nodes)].attrs, attr)>> ELSE <<>>)
          ELSE (IF doc[Head(nodes)].stext # "" THEN <<doc[Head(nodes)].stext>> ELSE <<>>))
         \o Contributions(doc, Tail(nodes), attr)

\* The contributions of one document's matched nodes, passed through the rest
\* of the chain
ContributionsOf(doc, selector, func_chain, attr) ==
    IF CssNodes(doc, selector, _extract_pseudo(selector)).err # "none" THEN <<>>
    ELSE WithFunctions(Contributions(doc, CssNodes(doc, selector, _extract_pseudo(selector)).nodes,
                                     attr),
                       IF attr # "" THEN _remove_get_attr(func_chain) ELSE func_chain)

RECURSIVE ContributionsAll(_, _)
ContributionsAll(items, expression) ==
    IF items = <<>> THEN <<>>
    ELSE (IF Head(items).content_type = "HTML"
          THEN ContributionsOf(HTMLParser(Head(items).content),
                               split_functions(expression)[1],
                               split_functions(expression)[2],
                               _extract_get_attr(split_functions(expression)[2]))
          ELSE <<>>)
         \o ContributionsAll(Tail(items), expression)

\* C20: a CSS query returns, for every matched node in match order, the value
\* of the named attribute when the chain holds a recognized get-attr and the
\* node has the attribute, nothing for a node that lacks it, and without
\* get-attr the node's stripped text unless that is empty.
C20_CssExtraction ==
    (/\ last.op = "query"
     /\ parse_query(last.query)[1] = "CSS"
     /\ last.out.err = "none")
    => last.out.val = _select_by_index(ContributionsAll(content_list, parse_query(last.query)[2]),
                                       last.index)

\* Whether the stripped subtree text of a node satisfies a text predicate
Passes(text, pseudo, arg) ==
    CASE pseudo \in {"has-text", "contains-text"} ->
           \E k \in 0 .. Len(text) - Len(arg) : Slice(text, k, k + Len(arg)) = arg
      [] pseudo = "text-equals" -> text = arg
      [] pseudo = "text-starts" ->
           Len(arg) <= Len(text) /\ Slice(text, 0, Len(arg)) = arg
      [] pseudo = "text-ends" ->
           Len(arg) <= Len(text) /\ Slice(text, Len(text) - Len(arg), Len(text)) = arg

\* The nodes base selects, the document root for an empty base
CandidatesOf(doc, base) ==
    IF base = "" THEN <<1>>
    ELSE IF CssSelect(doc, 0, base).err # "none" THEN <<>>
    ELSE CssSelect(doc, 0, base).nodes

\* The nodes emitted for the candidates: a passing candidate itself, or what
\* trailing selects inside it
RECURSIVE EmittedFor(_, _, _, _, _)
EmittedFor(doc, candidates, pseudo, arg, trailing) ==
    IF candidates = <<>> THEN <<>>
    ELSE (IF ~Passes(Strip(doc[Head(candidates)].stext), pseudo, arg) THEN <<>>
          ELSE IF trailing = "" THEN <<Head(candidates)>>
          ELSE IF CssSelect(doc, Head(candidates), trailing).err # "none" THEN <<>>
          ELSE CssSelect(doc, Head(candidates), trailing).nodes)
         \o EmittedFor(doc, Tail(candidates), pseudo, arg, trailing)

\* The texts of the emitted nodes of every HTML item of a store
RECURSIVE EmittedTexts(_, _)
EmittedTexts(items, q) ==
    IF items = <<>> THEN <<>>
    ELSE (IF Head(items).content_type = "HTML"
          THEN Contributions(HTMLParser(Head(items).content),
                             EmittedFor(HTMLParser(Head(items).content),
                                        CandidatesOf(HTMLParser(Head(items).content), q[2]),
                                        q[3], q[4], q[5]),
                             "")
          ELSE <<>>)
         \o EmittedTexts(Tail(items), q)

IsTrimOf(t, s) ==
    \E i \in 0 .. Len(s), j \in 0 .. Len(s) :
        /\ i <= j
        /\ t = Slice(s, i, j)
        /\ \A k \in 0 .. Len(s) - 1 : (k < i \/ k >= j) => CharAt(s, k) \in Whitespace
        /\ t # "" => (CharAt(t, 0) \notin Whitespace /\ CharAt(t, Len(t) - 1) \notin Whitespace)

\* The call tokens of a chain: the pieces between its >>, left to right,
\* trimmed, the empty ones left out
RECURSIVE TokensOf(_)
TokensOf(chain) ==
    IF Occurrences(chain, FUNCTION_PIPE) = {}
    THEN (IF Strip(chain) = "" THEN <<>> ELSE <<Strip(chain)>>)
    ELSE (IF Strip(Preceding(chain, FUNCTION_PIPE)) = "" THEN <<>>
          ELSE <<Strip(Preceding(chain, FUNCTION_PIPE))>>)
         \o TokensOf(Following(chain, FUNCTION_PIPE))

\* The steps applied so far followed by the tokens still to run
RECURSIVE StepsOf(_, _)
StepsOf(calls, queries) ==
    IF calls # <<>> THEN <<Head(calls).func>> \o StepsOf(Tail(calls), queries)
    ELSE IF queries = <<>> THEN <<>>
    ELSE (IF Strip(Head(queries)) = "" THEN <<>> ELSE <<Strip(Head(queries))>>)
         \o StepsOf(calls, Tail(queries))

\* C22: the expression is the trimmed text before the first >> and the chain
\* the text after it, whose non-empty trimmed pieces are the steps run, in
\* order; without >> the expression is the whole trimmed string and no step
\* runs; a | separates nothing.
C22_SplitOnFirstPipe ==
    memo.op = "split_functions" =>
        IF Occurrences(memo.query, FUNCTION_PIPE) = {}
        THEN /\ IsTrimOf(memo.out.val[1], memo.query)
             /\ memo.out.val[2] = ""
             /\ last.op = "parse_and_apply" => (last.calls = <<>> /\ last.queries = <<>>)
        ELSE /\ IsTrimOf(memo.out.val[1], Preceding(memo.query, FUNCTION_PIPE))
             /\ memo.out.val[2] = Following(memo.query, FUNCTION_PIPE)
             /\ last.op = "parse_and_apply" =>
                   StepsOf(last.calls, last.queries) = TokensOf(memo.out.val[2])

\* C22 witness: an expression with a | before the first >> and a | inside an
\* argument has run its three steps
C22_Witness ==
    /\ memo.op = "split_functions"
    /\ memo.query = " a|b >> replace('1', 'x|y') >> foo >> uppercase() "
    /\ memo.out = Ok(<<"a|b", " replace('1', 'x|y') >> foo >> uppercase() ">>)
    /\ last.op = "parse_and_apply"
    /\ last.queries = <<>>
    /\ Len(last.calls) = 3
    /\ last.calls[1].func = "replace('1', 'x|y')"

(***************************************************************************)
(* Properties of get-attr in a CSS chain.                                  *)
(***************************************************************************)
\* The steps applied in order to the attribute values extracted from the
\* nodes of every HTML item of a store
RECURSIVE StepsOnAttrs(_, _)
StepsOnAttrs(items, q) ==
    IF items = <<>> THEN <<>>
    ELSE (IF Head(items).content_type = "HTML"
          THEN ApplyChain(CssExtract(HTMLParser(Head(items).content),
                                     CandidatesOf(HTMLParser(Head(items).content), q[2]),
                                     q[3]),
                          q[4])
          ELSE <<>>)
         \o StepsOnAttrs(Tail(items), q)

\* C23: in a CSS query whose chain holds a get-attr call, first, in the middle
\* or last, the chain left after taking the call out is made of the other
\* steps, all of them, in their order, with no stray or empty step, and the
\* query returns those steps applied to the extracted attribute values.
C23_GetAttrTakenOut ==
    \A q \in GetAttrQueries :
        (last.op = "query" /\ last.query = q[1])
        => /\ TokensOf(_remove_get_attr(split_functions(parse_query(q[1])[2])[2])) = q[4]
           /\ Occurrences(_remove_get_attr(split_functions(parse_query(q[1])[2])[2]),
                          FUNCTION_PIPE \o " " \o FUNCTION_PIPE) = {}
           /\ last.out = Ok(_select_by_index(StepsOnAttrs(content_list, q), last.index))

\* C23 witness: get-attr stood in the middle of four steps and the three
\* others were applied to the two ids of the payload
C23_Witness ==
    /\ last.op = "query"
    /\ last.query = "css:* >> uppercase() >> get-attr(\"id\") >> lowercase() >> replace('k', 'xy')"
    /\ last.index = -1
    /\ content_list = <<_ContentItem(P_ATTRS, "HTML")>>
    /\ last.out = Ok(<<"xy", "m">>)

(***************************************************************************)
(* Properties of the regex adapter.                                        *)
(***************************************************************************)
\* The strings of a list stripped, those empty after stripping left out
RECURSIVE StrippedNonEmpty(_)
StrippedNonEmpty(xs) ==
    IF xs = <<>> THEN <<>>
    ELSE (IF Strip(Head(xs)) = "" THEN <<>> ELSE <<Strip(Head(xs))>>)
         \o StrippedNonEmpty(Tail(xs))

\* Match by match, the full match of a pattern without groups, and otherwise
\* the groups that took part in the match, in ascending index
RECURSIVE Emitted(_, _)
Emitted(matches, ngroups) ==
    IF matches = <<>> THEN <<>>
    ELSE (IF ngroups = 0 THEN <<Head(matches).full>>
          ELSE [k \in 1 .. Cardinality({g \in 1 .. ngroups : Head(matches).groups[g].some}) |->
                   Head(matches).groups[
                       CHOOSE g \in 1 .. ngroups :
                           /\ Head(matches).groups[g].some
                           /\ Cardinality({h \in 1 .. g : Head(matches).groups[h].some}) = k].s])
         \o Emitted(Tail(matches), ngroups)

\* What a pattern yields on one payload: nothing when it does not compile
RegexYield(compiled, content) ==
    IF compiled.err # "none" THEN <<>>
    ELSE StrippedNonEmpty(Emitted(ReFinditer(compiled, content, 0), compiled.groups))

RECURSIVE RegexYields(_, _)
RegexYields(items, expression) ==
    IF items = <<>> THEN <<>>
    ELSE WithFunctions(RegexYield(ReCompile(split_functions(expression)[1]),
                                  Head(items).content),
                       split_functions(expression)[2])
         \o RegexYields(Tail(items), expression)

\* C24: a regex query returns nothing for a pattern that does not compile, the
\* non-overlapping full matches left to right for a pattern without groups,
\* and otherwise, match by match, the groups that took part in the match in
\* ascending index; every string is stripped and the empty ones are dropped.
C24_RegexAdapter ==
    (last.op = "query" /\ parse_query(last.query)[1] = "REGEX")
    => last.out = Ok(_select_by_index(RegexYields(content_list, parse_query(last.query)[2]),
                                      last.index))

(***************************************************************************)
(* Properties of the JSON adapter.                                         *)
(***************************************************************************)
\* One value as a string: nothing for null, true or false for a boolean, the
\* compact serialization of a list or an object, the scalar's own form
StringOf(value) ==
    CASE value.t = "null" -> ""
      [] value.t = "bool" -> (IF value.s = "True" THEN "true" ELSE "false")
      [] OTHER -> value.s

RECURSIVE StringsOf(_)
StringsOf(values) ==
    IF values = <<>> THEN <<>>
    ELSE (IF StringOf(Head(values)) = "" THEN <<>> ELSE <<StringOf(Head(values))>>)
         \o StringsOf(Tail(values))

\* The strings of an evaluated value: one per element of a top-level list,
\* one for any other value, none that is empty
Stringified(value) ==
    IF value.t = "list" THEN StringsOf(value.items) ELSE StringsOf(<<value>>)

\* What an expression yields on one payload: nothing when the payload is not
\* JSON or the expression does not evaluate.  An integer literal is JSON.
JsonYield(raw_json, expr) ==
    IF raw_json # P_JSON /\ ~IsJsonInt(raw_json) THEN <<>>
    ELSE IF JmesSearch(expr, IF raw_json = P_JSON THEN JValue("obj", P_JSON, <<>>)
                             ELSE JValue("num", raw_json, <<>>)).err # "none" THEN <<>>
    ELSE Stringified(JmesSearch(expr, IF raw_json = P_JSON THEN JValue("obj", P_JSON, <<>>)
                                      ELSE JValue("num", raw_json, <<>>)).value)

RECURSIVE JsonYields(_, _)
JsonYields(items, expression) ==
    IF items = <<>> THEN <<>>
    ELSE (IF Head(items).content_type = "JSON"
          THEN WithFunctions(JsonYield(Head(items).content, split_functions(expression)[1]),
                             split_functions(expression)[2])
          ELSE <<>>)
         \o JsonYields(Tail(items), expression)

\* C25: a JSON query returns, for the value its expression evaluates to,
\* nothing for null, true or false for a boolean, one string per element of a
\* top-level list (null and empty elements dropped, nested lists and objects
\* as one compact string), one compact string for an object, the scalar's own
\* form otherwise, never an empty string; and nothing for a payload that is
\* not JSON or an expression that does not evaluate.
C25_JsonAdapter ==
    (last.op = "query" /\ parse_query(last.query)[1] = "JSON")
    => last.out = Ok(_select_by_index(JsonYields(content_list, parse_query(last.query)[2]),
                                      last.index))

(***************************************************************************)
(* Properties of the XPath adapter.                                        *)
(***************************************************************************)
\* The strings of an evaluation: the string itself, or for every item of a
\* node list the full text content of an element and the string value of a
\* text node or an attribute; nothing when the evaluation failed
RECURSIVE ItemStrings(_)
ItemStrings(items) ==
    IF items = <<>> THEN <<>>
    ELSE <<IF Head(items).is_element THEN Head(items).text_content ELSE Head(items).str>>
         \o ItemStrings(Tail(items))

XPathYield(content, xpath_expr) ==
    IF HtmlFromString(content).err # "none" THEN <<>>
    ELSE IF XPathEval(xpath_expr, HtmlFromString(content).doc).err # "none" THEN <<>>
    ELSE IF XPathEval(xpath_expr, HtmlFromString(content).doc).kind = "str"
         THEN StrippedNonEmpty(<<XPathEval(xpath_expr, HtmlFromString(content).doc).s>>)
    ELSE StrippedNonEmpty(ItemStrings(XPathEval(xpath_expr, HtmlFromString(content).doc).items))

RECURSIVE XPathYields(_, _)
XPathYields(items, expression) ==
    IF items = <<>> THEN <<>>
    ELSE (IF Head(items).content_type \in {"TEXT", "HTML"}
          THEN WithFunctions(XPathYield(Head(items).content, split_functions(expression)[1]),
                             split_functions(expression)[2])
          ELSE <<>>)
         \o XPathYields(Tail(items), expression)

\* C26: an XPath query whose expression evaluates to a string returns that
\* one string, and one whose expression evaluates to a node list returns the
\* full text content of every element and the string value of every text node
\* or attribute, in order; every string is stripped and the empty ones are
\* dropped; an expression or a source the evaluator rejects gives nothing.
C26_XPathShapes ==
    (last.op = "query" /\ last.query \in XPathShapeQueries)
    => last.out = Ok(_select_by_index(XPathYields(content_list, parse_query(last.query)[2]),
                                      last.index))

\* C26 witness: over the text payload and the two blocks, the elements of a
\* node list came back as their stripped text, in order
C26_Witness ==
    /\ last.op = "query"
    /\ last.index = -1
    /\ last.query = "xpath://i"
    /\ content_list = <<_ContentItem(P_HTML, "TEXT"), _ContentItem(P_BLOCKS, "HTML")>>
    /\ last.out = Ok(<<"b2", "x1", "y2">>)

\* C27: an XPath query returns a list, whatever kind of value its expression
\* has: a node list, a string, a number or a boolean.
C27_XPathTotal ==
    (last.op = "query" /\ parse_query(last.query)[1] = "XPATH") => last.out.err = "none"

(***************************************************************************)
(* Frame of the read operations.                                           *)
(***************************************************************************)
ReadOps ==
    {"query", "select", "select_where", "select_first", "select_first_where",
     "select_many", "select_many_where", "query_batch"}

\* C28: query, select, select_where, select_first(_where), select_many(_where)
\* and query_batch leave the ordered list of items and content_count as they
\* were, whatever they return or raise; the store changes only in a step of
\* add_text, add_html, add_json or clear.
C28_ReadsLeaveStore ==
    [][/\ (last.op = "none" /\ last'.op \in ReadOps)
          => (content_list' = content_list /\ Len(content_list') = Len(content_list))
       /\ content_list' # content_list
          => (last' = last /\ (added' = <<>> \/ Len(added') = Len(added) + 1))]_vars

\* C28 witness: select_many has returned several values from a full store
\* that still holds what was added to it
C28_Witness ==
    /\ last.op = "select_many"
    /\ last.out.err = "none"
    /\ Len(last.out.val) > 1
    /\ Len(content_list) = MaxItems
    /\ Len(added) = MaxItems

(***************************************************************************)
(* No empty string in a result.                                            *)
(***************************************************************************)
ListOps == {"query", "select_first", "select_first_where", "select_many", "select_many_where"}

\* C29: every string of the list query returns is non-empty, for every store,
\* index and query of any grammar, with or without a chain; so is every
\* string select_first and select_many return and every string of every
\* inner list of query_batch.
C29_NoEmptyString ==
    /\ (last.op \in ListOps /\ last.out.err = "none")
       => \A k \in 1 .. Len(last.out.val) : last.out.val[k] # ""
    /\ (last.op = "query_batch" /\ last.out.err = "none")
       => \A k \in 1 .. Len(last.out.val) :
              \A j \in 1 .. Len(last.out.val[k]) : last.out.val[k][j] # ""

\* C29 witness: a JSON list holding an empty string and a null came back
\* without them
C29_Witness ==
    /\ last.op = "query"
    /\ last.query = "json:l"
    /\ last.index = -1
    /\ content_list = <<_ContentItem(P_JSON, "JSON")>>
    /\ last.out = Ok(<<"b2", "true", "[1]">>)

(***************************************************************************)
(* get-attr outside CSS.                                                   *)
(***************************************************************************)
\* C30: a regex, XPath or JSON query whose chain holds a get-attr step has
\* the outcome of the same query without that step, on every store and for
\* every index.
C30_GetAttrNoOp ==
    \A q \in GetAttrPairs :
        (last.op = "query" /\ last.query = q[1])
        => last.out = query(content_list, last.index, q[2])

\* C30 witness: an XPath query for an attribute with get-attr between two
\* other steps returned what the two steps alone return
C30_Witness ==
    /\ last.op = "query"
    /\ last.query = "xpath://p/@id >> uppercase() >> get-attr('id') >> lowercase()"
    /\ last.index = -1
    /\ content_list = <<_ContentItem(P_HTML, "HTML")>>
    /\ last.out = Ok(<<"k">>)

====
